---- MODULE Spec2Model ----
(***************************************************************************)
(* A model of the stateright actor layer:                                  *)
(*   - src/src/actor.rs: Actor, ActorResult, ActorSystem (init / next) and *)
(*     the ClockActor and Pinger/Ponger actors of its documentation and    *)
(*     tests;                                                              *)
(*   - src/src/actor/ordered_reliable_link.rs: ActorWrapper and its test   *)
(*     system;                                                             *)
(*   - the breadth-first checker that drives them (its source is not part  *)
(*     of the tree; it is modelled from the specification, section 4.3).   *)
(***************************************************************************)
EXTENDS Integers, Sequences, FiniteSets, TLC

VARIABLES
    sys,        \* the configured ActorSystem { init_network, actors }
    snapshot,   \* the current ActorSystemSnapshot { actor_states, network }
    path,       \* the actions taken from the initial snapshot (traced specs)
    panic,      \* the panic that aborted the program, or None
    job,        \* the checker's job: the system, KeepPaths, and check(max_count)
    visited,    \* Checker.visited
    pending,    \* Checker.pending (FIFO frontier)
    sources,    \* Checker.sources (state -> parent state), when KeepPaths::Yes
    examined,   \* states the checker has expanded, over all check() calls
    result,     \* what the last check() returned; Running before the first
    workers,    \* the workers of the multi-worker checker; <<>> without them
    log         \* how often each state was enqueued and taken (multi-worker)

checkerVars == <<job, visited, pending, sources, examined, result, workers, log>>
vars == <<sys, snapshot, path, panic, job, visited, pending, sources, examined, result,
          workers, log>>

(***************************************************************************)
(* Bounds of the model.                                                    *)
(***************************************************************************)
\* ClockActor timestamps grow without bound; the transition-system
\* specification stops delivering once a clock would pass this value.
MaxClock == 4
\* Longest action path recorded by the path-tracking specification.
MaxPath == 3
\* The checker's jobs include check(n) for every n from 1 to this value.
MaxSmallCount == 4
\* The multi-worker checker runs with 1 to this many workers.
MaxThreads == 2

None == [tag |-> "None"]
Some(x) == [tag |-> "Some", v |-> x]

(***************************************************************************)
(* Messages, states and actor configurations (src/src/actor.rs).           *)
(***************************************************************************)
U32(n) == [tag |-> "u32", v |-> n]
Ping(n) == [tag |-> "Ping", v |-> n]
Pong(n) == [tag |-> "Pong", v |-> n]
PingerState(n) == [tag |-> "PingerState", v |-> n]
PongerState(n) == [tag |-> "PongerState", v |-> n]
ClockActor == [tag |-> "ClockActor"]
Pinger(max_nat, ponger_id) ==
    [tag |-> "Pinger", max_nat |-> max_nat, ponger_id |-> ponger_id]
Ponger(max_nat) == [tag |-> "Ponger", max_nat |-> max_nat]

Envelope(src, dst, msg) == [src |-> src, dst |-> dst, msg |-> msg]
Send(dst, msg) == [dst |-> dst, msg |-> msg]

\* ActorResult::new
ActorResultNew(state) ==
    [action |-> "actor step", state |-> state, outputs |-> <<>>]

\* ActorOutputVec::send
OutputsSend(actor, dst, msg) ==
    [actor EXCEPT !.outputs = Append(@, Send(dst, msg))]

(***************************************************************************)
(* The derived Ord of Envelope<Msg>: src, then dst, then msg; a message    *)
(* enum orders by variant, then by its fields.                             *)
(***************************************************************************)
MsgKey(m) ==
    CASE m.tag = "u32"     -> <<0, m.v, 0>>
      [] m.tag = "Ping"    -> <<0, m.v, 0>>
      [] m.tag = "Pong"    -> <<1, m.v, 0>>
      [] m.tag = "Deliver" -> <<0, m.seq, m.msg>>
      [] m.tag = "Ack"     -> <<1, m.seq, 0>>

\* Mutant: envelopes compared by source and destination only.
EnvKeyNoMsg(e) == <<e.src, e.dst>>

EnvKey(e) == <<e.src, e.dst>> \o MsgKey(e.msg)

RECURSIVE KeyLess(_, _, _)
KeyLess(a, b, i) ==
    IF i > Len(a) THEN FALSE
    ELSE IF a[i] # b[i] THEN a[i] < b[i]
    ELSE KeyLess(a, b, i + 1)

EnvLess(a, b) == KeyLess(EnvKey(a), EnvKey(b), 1)

\* Iteration order of the BTreeSet that holds the network.
RECURSIVE NetworkIter(_)
NetworkIter(network) ==
    IF network = {} THEN <<>>
    ELSE LET first == CHOOSE e \in network :
                          \A o \in network \ {e} : EnvLess(e, o)
         IN  <<first>> \o NetworkIter(network \ {first})

(***************************************************************************)
(* ClockActor (module documentation of actor.rs).                          *)
(***************************************************************************)
ClockStart == ActorResultNew(0)

\* Mutant: the reply carries the timestamp itself.
ClockAdvanceSameTimestamp(src, msg, actor) ==
    IF msg.v > actor.state
    THEN OutputsSend([actor EXCEPT !.state = msg.v], src, U32(msg.v))
    ELSE actor

ClockAdvance(src, msg, actor) ==
    IF msg.v > actor.state
    THEN OutputsSend([actor EXCEPT !.state = msg.v], src, U32(msg.v + 1))
    ELSE actor

(***************************************************************************)
(* Pinger / Ponger (actor! in the tests of actor.rs).                      *)
(***************************************************************************)
PingerStart(cfg) ==
    OutputsSend(ActorResultNew(PingerState(0)), cfg.ponger_id, Ping(0))

PongerStart(cfg) == ActorResultNew(PongerState(0))

PingerGuard(cfg, msg, actor) ==
    /\ actor.state.tag = "PingerState"
    /\ msg.tag = "Pong"
    /\ actor.state.v = msg.v
    /\ actor.state.v < cfg.max_nat

PingerAdvance(cfg, src, msg, actor) ==
    IF PingerGuard(cfg, msg, actor)
    THEN OutputsSend([actor EXCEPT !.state = PingerState(@.v + 1)],
                     src, Ping(msg.v + 1))
    ELSE actor

\* Mutants of the Ponger's condition: without the comparison with the
\* message, and without the max_nat limit.
PongerGuardNoMatch(cfg, msg, actor) ==
    /\ actor.state.tag = "PongerState"
    /\ msg.tag = "Ping"
    /\ actor.state.v < cfg.max_nat

PongerGuardNoMax(cfg, msg, actor) ==
    /\ actor.state.tag = "PongerState"
    /\ msg.tag = "Ping"
    /\ actor.state.v = msg.v

PongerGuard(cfg, msg, actor) ==
    /\ actor.state.tag = "PongerState"
    /\ msg.tag = "Ping"
    /\ actor.state.v = msg.v
    /\ actor.state.v < cfg.max_nat

PongerAdvance(cfg, src, msg, actor) ==
    IF PongerGuard(cfg, msg, actor)
    THEN OutputsSend([actor EXCEPT !.state = PongerState(@.v + 1)],
                     src, Pong(msg.v))
    ELSE actor

\* Actor::start, dispatched on the actor's configuration.
Start(cfg) ==
    CASE cfg.tag = "ClockActor" -> ClockStart
      [] cfg.tag = "Pinger"     -> PingerStart(cfg)
      [] cfg.tag = "Ponger"     -> PongerStart(cfg)

\* Actor::advance, dispatched on the actor's configuration.
Advance(cfg, src, msg, actor) ==
    CASE cfg.tag = "ClockActor" -> ClockAdvance(src, msg, actor)
      [] cfg.tag = "Pinger"     -> PingerAdvance(cfg, src, msg, actor)
      [] cfg.tag = "Ponger"     -> PongerAdvance(cfg, src, msg, actor)

(***************************************************************************)
(* ActorSystem as a StateMachine (actor.rs, mod model).                    *)
(* Actor ids are 0-based; actor_states is a sequence, so actor id lives at *)
(* index id + 1.                                                           *)
(***************************************************************************)
ActorSystem(init_network, actors) ==
    [init_network |-> init_network, actors |-> actors]

OutputEnvelopes(src, outputs) ==
    {Envelope(src, outputs[i].dst, outputs[i].msg) : i \in DOMAIN outputs}

\* Mutant: the envelopes the actors send at start replace the seeded ones.
ActorSystemInitUnseeded(s) ==
    LET started == [i \in DOMAIN s.actors |-> Start(s.actors[i])]
        sent == UNION {OutputEnvelopes(i - 1, started[i].outputs) :
                          i \in DOMAIN s.actors}
    IN  [actor_states |-> [i \in DOMAIN s.actors |-> started[i].state],
         network |-> IF sent # {} THEN sent
                     ELSE {s.init_network[i] : i \in DOMAIN s.init_network}]

\* ActorSystem::init: the single ("INIT", snapshot) step.
ActorSystemInit(s) ==
    LET started == [i \in DOMAIN s.actors |-> Start(s.actors[i])]
    IN  [actor_states |-> [i \in DOMAIN s.actors |-> started[i].state],
         network |-> {s.init_network[i] : i \in DOMAIN s.init_network}
                     \cup UNION {OutputEnvelopes(i - 1, started[i].outputs) :
                                     i \in DOMAIN s.actors}]

\* Mutant: every envelope between the same two actors is lost with it.
MessageLostWithSiblings(state, env) ==
    [state EXCEPT !.network =
        {e \in @ : ~(e.src = env.src /\ e.dst = env.dst)}]

\* The steps ActorSystem::init pushes: results.push(("INIT", snapshot)).
ActorSystemInitSteps(s) == << <<"INIT", ActorSystemInit(s)>> >>

\* option 1 of ActorSystem::next: the message is lost.
MessageLost(state, env) ==
    [state EXCEPT !.network = @ \ {env}]

\* Mutant: the delivered envelope leaves the network.
DeliveredRemovesEnvelope(s, state, env) ==
    LET id == env.dst
        res == Advance(s.actors[id + 1], env.src, env.msg,
                       ActorResultNew(state.actor_states[id + 1]))
    IN  [actor_states |-> [state.actor_states EXCEPT ![id + 1] = res.state],
         network |-> (state.network \ {env})
                     \cup OutputEnvelopes(id, res.outputs)]

\* Mutant: the envelopes sent carry the source of the delivered envelope.
DeliveredSendsFromSrc(s, state, env) ==
    LET id == env.dst
        res == Advance(s.actors[id + 1], env.src, env.msg,
                       ActorResultNew(state.actor_states[id + 1]))
    IN  [actor_states |-> [state.actor_states EXCEPT ![id + 1] = res.state],
         network |-> state.network \cup OutputEnvelopes(env.src, res.outputs)]

\* Mutant: the new actor state is pushed instead of assigned.
DeliveredAppendsState(s, state, env) ==
    LET id == env.dst
        res == Advance(s.actors[id + 1], env.src, env.msg,
                       ActorResultNew(state.actor_states[id + 1]))
    IN  [actor_states |-> Append(state.actor_states, res.state),
         network |-> state.network \cup OutputEnvelopes(id, res.outputs)]

\* option 2 of ActorSystem::next: the message is delivered (and stays in the
\* network: the network may deliver it again).
MessageDelivered(s, state, env) ==
    LET id == env.dst
        res == Advance(s.actors[id + 1], env.src, env.msg,
                       ActorResultNew(state.actor_states[id + 1]))
    IN  [actor_states |-> [state.actor_states EXCEPT ![id + 1] = res.state],
         network |-> state.network \cup OutputEnvelopes(id, res.outputs)]

\* The action label of the delivered step (ActorResult.action).
DeliveredAction(s, state, env) ==
    Advance(s.actors[env.dst + 1], env.src, env.msg,
            ActorResultNew(state.actor_states[env.dst + 1])).action

\* Mutant: per envelope the delivered step is pushed before the lost step.
RECURSIVE StepsOfDeliverFirst(_, _, _)
StepsOfDeliverFirst(s, state, envs) ==
    IF envs = <<>> THEN <<>>
    ELSE LET env == Head(envs)
         IN  << <<DeliveredAction(s, state, env),
                  MessageDelivered(s, state, env)>>,
                <<"message lost", MessageLost(state, env)>> >>
             \o StepsOfDeliverFirst(s, state, Tail(envs))

\* ActorSystem::next: for each envelope in set order, the lost step and then
\* the delivered step, each a (label, state) pair.
RECURSIVE StepsOf(_, _, _)
StepsOf(s, state, envs) ==
    IF envs = <<>> THEN <<>>
    ELSE LET env == Head(envs)
         IN  << <<"message lost", MessageLost(state, env)>>,
                <<DeliveredAction(s, state, env),
                  MessageDelivered(s, state, env)>> >>
             \o StepsOf(s, state, Tail(envs))

ActorSystemNext(s, state) == StepsOf(s, state, NetworkIter(state.network))

(***************************************************************************)
(* The systems of the documentation and the tests.                         *)
(***************************************************************************)
\* actor.rs, module documentation: two clocks and one seeded envelope.
ClockSystem ==
    ActorSystem(<<Envelope(1, 0, U32(1))>>, <<ClockActor, ClockActor>>)

\* actor.rs tests: visits_expected_states (max_nat 1), can_play_ping_pong
\* (max_nat 5).
PingPongSystem(max_nat) ==
    ActorSystem(<<>>, <<Pinger(max_nat, 1), Ponger(max_nat)>>)

\* Two clocks seeded with another timestamp.
SeededClocks(timestamp) ==
    ActorSystem(<<Envelope(1, 0, U32(timestamp))>>, <<ClockActor, ClockActor>>)

\* The ping-pong system seeded with the pinger's first Ping, twice, and with
\* a Pong.
SeededPingPong ==
    ActorSystem(<<Envelope(0, 1, Ping(0)), Envelope(0, 1, Ping(0)),
                  Envelope(1, 0, Pong(0))>>,
                <<Pinger(1, 1), Ponger(1)>>)

Systems ==
    {ClockSystem, PingPongSystem(1), PingPongSystem(5)}
    \cup {SeededClocks(timestamp) : timestamp \in 2..3}

\* Systems with a destination that is no actor: a seeded envelope, and the
\* ponger_id of a Pinger.
StraySystems ==
    {ActorSystem(<<Envelope(1, 2, U32(1))>>, <<ClockActor, ClockActor>>),
     ActorSystem(<<>>, <<Pinger(1, 2), Ponger(1)>>)}

\* state.actor_states[id] of next, with id = env.dst: the index is out of
\* bounds for some envelope of the network, and next panics.
NextPanics(s, state) == \E env \in state.network : env.dst >= Len(s.actors)

\* The closure of the documentation example: every clock is below 3.
ClockInvariant(state) ==
    \A i \in DOMAIN state.actor_states : state.actor_states[i] < 3

SeqMax(f) == CHOOSE x \in {f[i] : i \in DOMAIN f} :
                 \A j \in DOMAIN f : f[j] <= x
SeqMin(f) == CHOOSE x \in {f[i] : i \in DOMAIN f} :
                 \A j \in DOMAIN f : x <= f[j]

\* test::invariant: the values of the actors differ by at most 1.
invariant(state) ==
    LET extract_value == [i \in DOMAIN state.actor_states |->
                              state.actor_states[i].v]
    IN  SeqMax(extract_value) - SeqMin(extract_value) <= 1

IsClockSystem(s) == \A i \in DOMAIN s.actors : s.actors[i].tag = "ClockActor"

\* The always-property each test hands to the checker.
PropertyOf(s, state) ==
    IF IsClockSystem(s) THEN ClockInvariant(state) ELSE invariant(state)

(***************************************************************************)
(* The transition system: one action per branch of ActorSystem::next.      *)
(***************************************************************************)
\* Clocks never pass MaxClock in the transition-system specification.
WithinModelBound(s, state) ==
    IsClockSystem(s) =>
        \A i \in DOMAIN state.actor_states : state.actor_states[i] <= MaxClock

Idle == [tag |-> "Idle"]

CheckerIdle ==
    /\ job = None
    /\ visited = {}
    /\ pending = <<>>
    /\ sources = <<>>
    /\ examined = 0
    /\ result = Idle
    /\ workers = <<>>
    /\ log = <<>>

Init ==
    /\ sys \in Systems \cup StraySystems \cup {SeededPingPong}
    /\ snapshot = ActorSystemInit(sys)
    /\ path = <<>>
    /\ panic = None
    /\ CheckerIdle

Lost(env) ==
    /\ panic = None
    /\ ~NextPanics(sys, snapshot)
    /\ env \in snapshot.network
    /\ snapshot' = MessageLost(snapshot, env)
    /\ UNCHANGED <<sys, path, panic, checkerVars>>

\* The delivered step; when the destination is no actor the call of next
\* panics and produces no step at all.
Delivered(env) ==
    /\ panic = None
    /\ env \in snapshot.network
    /\ IF NextPanics(sys, snapshot)
       THEN /\ env.dst >= Len(sys.actors)
            /\ panic' = Some("index out of bounds")
            /\ snapshot' = snapshot
       ELSE /\ WithinModelBound(sys, MessageDelivered(sys, snapshot, env))
            /\ snapshot' = MessageDelivered(sys, snapshot, env)
            /\ panic' = panic
    /\ UNCHANGED <<sys, path, checkerVars>>

Next ==
    \/ \E env \in snapshot.network : Lost(env)
    \/ \E env \in snapshot.network : Delivered(env)

Spec == Init /\ [][Next]_vars

(***************************************************************************)
(* The breadth-first checker (specification, section 4.3).  A state is its *)
(* own fingerprint: distinct states never collide.                         *)
(***************************************************************************)
Job(keep_paths, max_count) ==
    [keep_paths |-> keep_paths, max_count |-> max_count]

\* The jobs: those of actor.rs, checker(KeepPaths::Yes, ..).check(100) for the
\* clocks, checker(KeepPaths::Yes, invariant).check(1_000) for max_nat 1 and
\* checker(KeepPaths::No, invariant).check(1_000_000) for max_nat 5; and
\* the same systems checked with smaller bounds per call.
JobsOf(s) ==
    IF IsClockSystem(s)
    THEN {Job(TRUE, n) : n \in {100} \cup 1..MaxSmallCount}
    ELSE IF s.actors[1].max_nat = 1
    THEN {Job(TRUE, n) : n \in {1000} \cup 1..MaxSmallCount}
    ELSE {Job(FALSE, n) : n \in {1000000, 1000, 100}}

\* CheckResult, and the two values of the model for a check() that has not
\* returned (Running) and a checker that is not in use (Idle).
Pass == [tag |-> "Pass"]
Incomplete == [tag |-> "Incomplete"]
Fail(state) == [tag |-> "Fail", state |-> state]
Running == [tag |-> "Running"]

\* One successor of the state being expanded: if its fingerprint is unseen,
\* evaluate the property, record the parent, insert into visited and the
\* frontier; a failed property halts the expansion.
\* Mutant: a new state goes to the front of the frontier (depth first).
VisitStepPushFront(s, j, c, parent, state) ==
    IF c.result # Running \/ state \in c.visited THEN c
    ELSE [visited |-> c.visited \cup {state},
          pending |-> <<state>> \o c.pending,
          sources |-> IF j.keep_paths
                      THEN c.sources @@ (state :> Some(parent))
                      ELSE c.sources,
          result  |-> IF PropertyOf(s, state) THEN Running ELSE Fail(state),
          examined |-> c.examined]

\* Mutant: a new state is marked visited and never enters the frontier.
VisitStepNoEnqueue(s, j, c, parent, state) ==
    IF c.result # Running \/ state \in c.visited THEN c
    ELSE [c EXCEPT !.visited = @ \cup {state},
                   !.result = IF PropertyOf(s, state) THEN Running
                              ELSE Fail(state)]

\* Mutant: insert and enqueue without comparing against visited.
VisitStepNoCompare(s, j, c, parent, state) ==
    IF c.result # Running THEN c
    ELSE [visited |-> c.visited \cup {state},
          pending |-> Append(c.pending, state),
          sources |-> IF j.keep_paths
                      THEN (state :> Some(parent)) @@ c.sources
                      ELSE c.sources,
          result  |-> IF PropertyOf(s, state) THEN Running ELSE Fail(state),
          examined |-> c.examined]

VisitStep(s, j, c, parent, state) ==
    IF c.result # Running \/ state \in c.visited THEN c
    ELSE [visited |-> c.visited \cup {state},
          pending |-> Append(c.pending, state),
          sources |-> IF j.keep_paths
                      THEN c.sources @@ (state :> Some(parent))
                      ELSE c.sources,
          result  |-> IF PropertyOf(s, state) THEN Running ELSE Fail(state),
          examined |-> c.examined]

\* The successors are visited in the order next produced them (each
\* intermediate checker is bound as a value before the next visit).
RECURSIVE VisitAll(_, _, _, _, _)
VisitAll(s, j, c, parent, steps) ==
    IF steps = <<>> THEN c
    ELSE CHOOSE done \in
             {VisitAll(s, j, visit, parent, Tail(steps)) :
                 visit \in {VisitStep(s, j, c, parent, Head(steps)[2])}} : TRUE

\* Checker construction: the initial states enter visited, the frontier and
\* (with no parent) sources; the property is evaluated on each.
CheckerNew(s, j) ==
    LET init == ActorSystemInit(s)
    IN  [visited |-> {init},
         pending |-> <<init>>,
         sources |-> IF j.keep_paths THEN (init :> None) ELSE <<>>,
         result  |-> IF PropertyOf(s, init) THEN Running ELSE Fail(init),
         examined |-> 0]

\* One iteration of the loop of check(): pop a state, call next, visit every
\* successor.
Expand(s, j, c) ==
    VisitAll(s, j, [c EXCEPT !.pending = Tail(@)], Head(c.pending),
             ActorSystemNext(s, Head(c.pending)))

\* The loop of check(): iterations while the search is running and the
\* frontier is not empty, n at most (evaluated by halves, in loop order).
RECURSIVE CheckLoop(_, _, _, _)
CheckLoop(s, j, c, n) ==
    IF n = 0 \/ c.result # Running \/ c.pending = <<>> THEN c
    ELSE IF n = 1 THEN [Expand(s, j, c) EXCEPT !.examined = @ + 1]
    ELSE CHOOSE done \in
             {CheckLoop(s, j, half, n - (n \div 2)) :
                 half \in {CheckLoop(s, j, c, n \div 2)}} : TRUE

\* What check() returns: Fail on a violated property, Pass when the frontier
\* has drained, Incomplete when the bound is exhausted first.
\* Mutant: an exhausted bound is reported as Pass.
OutcomePassOnBound(c) == IF c.result # Running THEN c.result ELSE Pass

Outcome(c) ==
    IF c.result # Running THEN c.result
    ELSE IF c.pending = <<>> THEN Pass
    ELSE Incomplete

\* check(max_count)
CheckCall(s, j, c) ==
    LET done == CheckLoop(s, j, [c EXCEPT !.examined = 0], j.max_count)
    IN  [done EXCEPT !.result = Outcome(done)]

\* Path reconstruction: follow sources back to an initial state.
RECURSIVE PathTo(_, _)
PathTo(src, state) ==
    IF src[state] = None THEN <<state>>
    ELSE Append(PathTo(src, src[state].v), state)

CheckerInit ==
    /\ sys \in Systems
    /\ snapshot = ActorSystemInit(sys)
    /\ path = <<>>
    /\ panic = None
    /\ job \in JobsOf(sys)
    /\ LET c == CheckerNew(sys, job)
       IN  /\ visited = c.visited
           /\ pending = c.pending
           /\ sources = c.sources
           /\ result  = c.result
    /\ examined = 0
    /\ workers = <<>>
    /\ log = <<>>

\* A call of check(max_count): the first one, or one more after Incomplete.
Check ==
    /\ result \in {Running, Incomplete}
    /\ LET c == CheckCall(sys, job,
                          [visited |-> visited, pending |-> pending,
                           sources |-> sources, result |-> Running,
                           examined |-> 0])
       IN  /\ visited' = c.visited
           /\ pending' = c.pending
           /\ sources' = c.sources
           /\ result' = c.result
           /\ examined' = examined + c.examined
    /\ UNCHANGED <<sys, snapshot, path, panic, job, workers, log>>

CheckerNext == Check

SpecChecker == CheckerInit /\ [][CheckerNext]_vars

(***************************************************************************)
(* The multi-worker checker (specification, section 4.3, Parallelism):     *)
(* workers share the frontier, the visited set and sources.  A worker      *)
(* takes a state from the frontier, calls next on its private clone, and   *)
(* offers the successors one at a time; each offer is one atomic           *)
(* compare-and-insert on visited together with the enqueue.  Workers are   *)
(* interchangeable: the model keeps how many there are, how many have      *)
(* stopped, and what each expanding one holds.  The log counts, for each   *)
(* state, how often it was enqueued and how often it was taken.            *)
(***************************************************************************)
ParallelInit ==
    /\ sys = PingPongSystem(1)
    /\ snapshot = ActorSystemInit(sys)
    /\ path = <<>>
    /\ panic = None
    /\ job = Job(TRUE, 1000)
    /\ LET c == CheckerNew(sys, job)
       IN  /\ visited = c.visited
           /\ pending = c.pending
           /\ sources = c.sources
           /\ result  = c.result
    /\ examined = 0
    /\ workers \in {[threads |-> threads, stopped |-> 0, expanding |-> {}] :
                        threads \in 1..MaxThreads}
    /\ log = [enqueued |-> (ActorSystemInit(sys) :> 1), expanded |-> <<>>]

\* An idle worker pops the head of the frontier and generates its successors.
Take ==
    /\ result = Running
    /\ workers.stopped + Cardinality(workers.expanding) < workers.threads
    /\ pending # <<>>
    /\ pending' = Tail(pending)
    /\ examined' = examined + 1
    /\ workers' = [workers EXCEPT !.expanding =
           @ \cup {[state |-> Head(pending),
                    todo |-> ActorSystemNext(sys, Head(pending))]}]
    /\ log' = [log EXCEPT !.expanded =
           IF Head(pending) \in DOMAIN @
           THEN [@ EXCEPT ![Head(pending)] = @ + 1]
           ELSE (Head(pending) :> 1) @@ @]
    /\ UNCHANGED <<sys, snapshot, path, panic, job, visited, sources, result>>

\* The worker offers its next successor: compare-and-insert, then enqueue.
Visit(w) ==
    /\ w \in workers.expanding
    /\ w.todo # <<>>
    /\ LET state == Head(w.todo)[2]
           c == VisitStep(sys, job,
                          [visited |-> visited, pending |-> pending,
                           sources |-> sources, result |-> result,
                           examined |-> examined],
                          w.state, state)
       IN  /\ visited' = c.visited
           /\ pending' = c.pending
           /\ sources' = c.sources
           /\ result' = c.result
           /\ workers' = [workers EXCEPT !.expanding =
                  (@ \ {w}) \cup {[w EXCEPT !.todo = Tail(@)]}]
           /\ log' = [log EXCEPT !.enqueued =
                  IF Len(c.pending) = Len(pending) THEN @
                  ELSE IF state \in DOMAIN @
                  THEN [@ EXCEPT ![state] = @ + 1]
                  ELSE (state :> 1) @@ @]
    /\ UNCHANGED <<sys, snapshot, path, panic, job, examined>>

\* The worker has offered every successor and becomes idle.
Finish(w) ==
    /\ w \in workers.expanding
    /\ w.todo = <<>>
    /\ workers' = [workers EXCEPT !.expanding = @ \ {w}]
    /\ UNCHANGED <<sys, snapshot, path, panic, job, visited, pending, sources,
                   examined, result, log>>

\* A worker terminates when the frontier is empty and all workers are idle;
\* the last one to terminate ends the run.
Exit ==
    /\ result = Running
    /\ workers.stopped < workers.threads
    /\ pending = <<>>
    /\ workers.expanding = {}
    /\ workers' = [workers EXCEPT !.stopped = @ + 1]
    /\ result' = IF workers.stopped + 1 = workers.threads
                 THEN Outcome([visited |-> visited, pending |-> pending,
                               sources |-> sources, result |-> result,
                               examined |-> examined])
                 ELSE result
    /\ UNCHANGED <<sys, snapshot, path, panic, job, visited, pending, sources,
                   examined, log>>

ParallelNext ==
    \/ Take
    \/ \E w \in workers.expanding : Visit(w)
    \/ \E w \in workers.expanding : Finish(w)
    \/ Exit

SpecParallel == ParallelInit /\ [][ParallelNext]_vars

(***************************************************************************)
(* The Out buffer of the handlers on_start / on_msg / on_timeout           *)
(* (specification, sections 3 and 4.4): an optional replacement state and  *)
(* the commands in the order they were issued.                             *)
(***************************************************************************)
OutNew == [state |-> None, commands |-> <<>>]
OutSetState(o, state) == [o EXCEPT !.state = Some(state)]
OutSend(o, dst, msg) ==
    [o EXCEPT !.commands = Append(@, [tag |-> "Send", dst |-> dst, msg |-> msg])]
OutSetTimer(o) == [o EXCEPT !.commands = Append(@, [tag |-> "SetTimer"])]
OutCancelTimer(o) == [o EXCEPT !.commands = Append(@, [tag |-> "CancelTimer"])]
OutIsNoOp(o) == o.state = None /\ o.commands = <<>>

\* What a handler call produced: its Out, or the panic that aborted it.
Returned(o) == [panic |-> None, o |-> o]
Panicked(message) == [panic |-> Some(message), o |-> OutNew]

(***************************************************************************)
(* TestActor of ordered_reliable_link.rs (mod test).  TestMsg(v) is v.     *)
(***************************************************************************)
Sender(receiver_id) == [tag |-> "Sender", receiver_id |-> receiver_id]
Receiver == [tag |-> "Receiver"]
TestState(sent, received) == [sent |-> sent, received |-> received]

TestActorOnStart(actor, id) ==
    LET state == TestState(<<>>, <<>>)
        o1 == IF actor.tag = "Sender"
              THEN OutSend(OutSend(OutNew, actor.receiver_id, 42),
                           actor.receiver_id, 43)
              ELSE OutNew
    IN  OutSetState(o1, state)

TestActorOnMsg(actor, id, state, src, msg) ==
    OutSetState(OutNew, [state EXCEPT !.received = Append(@, <<src, msg>>)])

(***************************************************************************)
(* Further inner actors, to exercise the wrapper's contract with any       *)
(* Actor: a Script actor issues fixed commands from on_start and on_msg    *)
(* and may or may not assign a state.                                      *)
(***************************************************************************)
Script(start_assigns, start_commands, msg_assigns, msg_commands) ==
    [tag |-> "Script",
     start_assigns |-> start_assigns, start_commands |-> start_commands,
     msg_assigns |-> msg_assigns, msg_commands |-> msg_commands]

RECURSIVE Issue(_, _)
Issue(o, commands) ==
    IF commands = <<>> THEN o
    ELSE Issue([o EXCEPT !.commands = Append(@, Head(commands))], Tail(commands))

ScriptOnStart(actor, id) ==
    LET o == Issue(OutNew, actor.start_commands)
    IN  IF actor.start_assigns THEN OutSetState(o, TestState(<<>>, <<>>)) ELSE o

ScriptOnMsg(actor, id, state, src, msg) ==
    LET o == Issue(OutNew, actor.msg_commands)
    IN  IF actor.msg_assigns
        THEN OutSetState(o, [state EXCEPT !.received = Append(@, <<src, msg>>)])
        ELSE o

\* A receiver that ignores the messages of a set (its on_msg does nothing
\* for them) and is a TestActor::Receiver otherwise.
Ignoring(ignored) == [tag |-> "Ignoring", ignored |-> ignored]

\* Actor::on_start_out / on_msg_out of the wrapped actor.
InnerOnStartOut(actor, id) ==
    IF actor.tag = "Script" THEN ScriptOnStart(actor, id)
    ELSE TestActorOnStart(actor, id)

InnerOnMsgOut(actor, id, state, src, msg) ==
    IF actor.tag = "Script" THEN ScriptOnMsg(actor, id, state, src, msg)
    ELSE IF actor.tag = "Ignoring" /\ msg \in actor.ignored THEN OutNew
    ELSE TestActorOnMsg(actor, id, state, src, msg)

(***************************************************************************)
(* ActorWrapper (ordered_reliable_link.rs).  The two BTreeMaps are sets of *)
(* entries with unique keys.                                               *)
(***************************************************************************)
ActorWrapper(wrapped_actor) == [wrapped_actor |-> wrapped_actor]
Deliver(seq, msg) == [tag |-> "Deliver", seq |-> seq, msg |-> msg]
Ack(seq) == [tag |-> "Ack", seq |-> seq]

StateWrapper(next_send_seq, msgs_pending_ack, last_delivered_seqs, wrapped_state) ==
    [next_send_seq |-> next_send_seq,
     msgs_pending_ack |-> msgs_pending_ack,
     last_delivered_seqs |-> last_delivered_seqs,
     wrapped_state |-> wrapped_state]

\* BTreeMap<Sequencer, (Id, Msg)>
PendingKeys(pending_ack) == {e.seq : e \in pending_ack}
PendingInsert(pending_ack, seq, dst, msg) ==
    {e \in pending_ack : e.seq # seq}
        \cup {[seq |-> seq, dst |-> dst, msg |-> msg]}
PendingRemove(pending_ack, seq) == {e \in pending_ack : e.seq # seq}

\* Mutant: the entries are iterated from the highest sequencer down.
RECURSIVE PendingIterDescending(_)
PendingIterDescending(pending_ack) ==
    IF pending_ack = {} THEN <<>>
    ELSE LET last == CHOOSE e \in pending_ack :
                         \A o \in pending_ack : e.seq >= o.seq
         IN  <<last>> \o PendingIterDescending(pending_ack \ {last})

RECURSIVE PendingIter(_)
PendingIter(pending_ack) ==
    IF pending_ack = {} THEN <<>>
    ELSE LET first == CHOOSE e \in pending_ack :
                          \A o \in pending_ack : e.seq <= o.seq
         IN  <<first>> \o PendingIter(pending_ack \ {first})

\* BTreeMap<Id, Sequencer>: get(&src).unwrap_or(&0), and insert.
LastDelivered(last_delivered_seqs, src) ==
    IF \E e \in last_delivered_seqs : e.src = src
    THEN (CHOOSE e \in last_delivered_seqs : e.src = src).seq
    ELSE 0
LastDeliveredInsert(last_delivered_seqs, src, seq) ==
    {e \in last_delivered_seqs : e.src # src} \cup {[src |-> src, seq |-> seq]}

\* Mutants of the early exit of on_msg: a strict comparison, and no early exit.
AlreadyDeliveredStrict(state, src, seq) ==
    seq < LastDelivered(state.last_delivered_seqs, src)

AlreadyDeliveredNever(state, src, seq) == FALSE

\* on_msg, Deliver: "early exit if already delivered".
AlreadyDelivered(state, src, seq) ==
    seq <= LastDelivered(state.last_delivered_seqs, src)

\* Mutant: the sequencer is advanced before it is used.
SendSeqAdvanced(state) == state.next_send_seq + 1

\* The sequencer process_output assigns to the next Send.
SendSeq(state) == state.next_send_seq

\* Mutant: a timer command of the wrapped actor is skipped silently.
RECURSIVE ProcessCommandsSkipTimers(_, _, _)
ProcessCommandsSkipTimers(commands, state, o) ==
    IF commands = <<>> THEN [panic |-> None, state |-> state, o |-> o]
    ELSE LET command == Head(commands)
         IN  IF command.tag # "Send"
             THEN ProcessCommandsSkipTimers(Tail(commands), state, o)
             ELSE ProcessCommandsSkipTimers(
                      Tail(commands),
                      [state EXCEPT
                          !.msgs_pending_ack =
                              PendingInsert(@, state.next_send_seq,
                                            command.dst, command.msg),
                          !.next_send_seq = @ + 1],
                      OutSend(o, command.dst,
                              Deliver(state.next_send_seq, command.msg)))

\* Mutant: the sequencer is not advanced after a Send.
RECURSIVE ProcessCommandsSameSeq(_, _, _)
ProcessCommandsSameSeq(commands, state, o) ==
    IF commands = <<>> THEN [panic |-> None, state |-> state, o |-> o]
    ELSE LET command == Head(commands)
         IN  IF command.tag # "Send"
             THEN [panic |-> Some("timer commands are not supported at this time"),
                   state |-> state, o |-> o]
             ELSE ProcessCommandsSameSeq(
                      Tail(commands),
                      [state EXCEPT
                          !.msgs_pending_ack =
                              PendingInsert(@, state.next_send_seq,
                                            command.dst, command.msg)],
                      OutSend(o, command.dst,
                              Deliver(state.next_send_seq, command.msg)))

\* The loop of process_output over the commands of the wrapped actor.
RECURSIVE ProcessCommands(_, _, _)
ProcessCommands(commands, state, o) ==
    IF commands = <<>> THEN [panic |-> None, state |-> state, o |-> o]
    ELSE LET command == Head(commands)
         IN  CASE command.tag = "CancelTimer" ->
                    [panic |-> Some("CancelTimer is not supported at this time"),
                     state |-> state, o |-> o]
               [] command.tag = "SetTimer" ->
                    [panic |-> Some("SetTimer is not supported at this time"),
                     state |-> state, o |-> o]
               [] command.tag = "Send" ->
                    ProcessCommands(
                        Tail(commands),
                        [state EXCEPT
                            !.msgs_pending_ack =
                                PendingInsert(@, SendSeq(state),
                                              command.dst, command.msg),
                            !.next_send_seq = @ + 1],
                        OutSend(o, command.dst,
                                Deliver(SendSeq(state), command.msg)))

process_output(wrapped_out, state, o) ==
    LET state1 == IF wrapped_out.state # None
                  THEN [state EXCEPT !.wrapped_state = wrapped_out.state.v]
                  ELSE state
        done == ProcessCommands(wrapped_out.commands, state1, o)
    IN  IF done.panic # None THEN [panic |-> done.panic, o |-> OutNew]
        ELSE Returned(OutSetState(done.o, done.state))

\* Mutant: a wrapped actor that assigned no state gets a default one.
WrapperOnStartDefaultState(wrapper, id) ==
    LET o == OutSetTimer(OutNew)
        wrapped_out == InnerOnStartOut(wrapper.wrapped_actor, id)
    IN  process_output(
            [wrapped_out EXCEPT !.state = None],
            StateWrapper(1, {}, {},
                IF wrapped_out.state = None THEN TestState(<<>>, <<>>)
                ELSE wrapped_out.state.v),
            o)

WrapperOnStart(wrapper, id) ==
    LET o == OutSetTimer(OutNew)
        wrapped_out == InnerOnStartOut(wrapper.wrapped_actor, id)
    IN  IF wrapped_out.state = None
        THEN Panicked("on_start must assign state")
        ELSE process_output(
                 [wrapped_out EXCEPT !.state = None],
                 StateWrapper(1, {}, {}, wrapped_out.state.v), o)

\* Mutant: the sequencer of a Deliver is recorded before the early exit.
WrapperOnMsgDuplicateSetsState(wrapper, id, state, src, msg) ==
    IF msg.tag = "Deliver" THEN
        LET o == OutSend(OutNew, src, Ack(msg.seq))
            recorded == [state EXCEPT !.last_delivered_seqs =
                            LastDeliveredInsert(@, src, msg.seq)]
            wrapped_out == InnerOnMsgOut(wrapper.wrapped_actor, id,
                                         state.wrapped_state, src, msg.msg)
        IN  IF AlreadyDelivered(state, src, msg.seq)
            THEN Returned(OutSetState(o, recorded))
            ELSE IF OutIsNoOp(wrapped_out) THEN Returned(o)
            ELSE process_output(wrapped_out, recorded, o)
    ELSE
        IF msg.seq \notin PendingKeys(state.msgs_pending_ack)
        THEN Returned(OutNew)
        ELSE Returned(OutSetState(OutNew,
                 [state EXCEPT !.msgs_pending_ack = PendingRemove(@, msg.seq)]))

\* Mutant: a Deliver the wrapped actor ignored still advances the sequencer
\* of its source.
WrapperOnMsgNoOpConsumes(wrapper, id, state, src, msg) ==
    IF msg.tag = "Deliver" THEN
        LET o == OutSend(OutNew, src, Ack(msg.seq))
            recorded == [state EXCEPT !.last_delivered_seqs =
                            LastDeliveredInsert(@, src, msg.seq)]
            wrapped_out == InnerOnMsgOut(wrapper.wrapped_actor, id,
                                         state.wrapped_state, src, msg.msg)
        IN  IF AlreadyDelivered(state, src, msg.seq) THEN Returned(o)
            ELSE process_output(wrapped_out, recorded, o)
    ELSE
        IF msg.seq \notin PendingKeys(state.msgs_pending_ack)
        THEN Returned(OutNew)
        ELSE Returned(OutSetState(OutNew,
                 [state EXCEPT !.msgs_pending_ack = PendingRemove(@, msg.seq)]))

\* Mutant: an Ack acknowledges every pending entry up to its sequencer.
WrapperOnMsgCumulativeAck(wrapper, id, state, src, msg) ==
    IF msg.tag = "Deliver" THEN
        LET o == OutSend(OutNew, src, Ack(msg.seq))
            wrapped_out == InnerOnMsgOut(wrapper.wrapped_actor, id,
                                         state.wrapped_state, src, msg.msg)
        IN  IF AlreadyDelivered(state, src, msg.seq)
            THEN Returned(o)
            ELSE IF OutIsNoOp(wrapped_out) THEN Returned(o)
            ELSE process_output(
                     wrapped_out,
                     [state EXCEPT !.last_delivered_seqs =
                         LastDeliveredInsert(@, src, msg.seq)],
                     o)
    ELSE
        IF msg.seq \notin PendingKeys(state.msgs_pending_ack)
        THEN Returned(OutNew)
        ELSE Returned(OutSetState(OutNew,
                 [state EXCEPT !.msgs_pending_ack =
                     {e \in @ : e.seq > msg.seq}]))

\* Mutant: a Deliver that was already delivered is not acknowledged again.
WrapperOnMsgNoAckOnDuplicate(wrapper, id, state, src, msg) ==
    IF msg.tag = "Deliver" THEN
        LET o == OutSend(OutNew, src, Ack(msg.seq))
            wrapped_out == InnerOnMsgOut(wrapper.wrapped_actor, id,
                                         state.wrapped_state, src, msg.msg)
        IN  IF AlreadyDelivered(state, src, msg.seq)
            THEN Returned(OutNew)
            ELSE IF OutIsNoOp(wrapped_out) THEN Returned(o)
            ELSE process_output(
                     wrapped_out,
                     [state EXCEPT !.last_delivered_seqs =
                         LastDeliveredInsert(@, src, msg.seq)],
                     o)
    ELSE
        IF msg.seq \notin PendingKeys(state.msgs_pending_ack)
        THEN Returned(OutNew)
        ELSE Returned(OutSetState(OutNew,
                 [state EXCEPT !.msgs_pending_ack = PendingRemove(@, msg.seq)]))

WrapperOnMsg(wrapper, id, state, src, msg) ==
    IF msg.tag = "Deliver" THEN
        LET o == OutSend(OutNew, src, Ack(msg.seq))
            wrapped_out == InnerOnMsgOut(wrapper.wrapped_actor, id,
                                         state.wrapped_state, src, msg.msg)
        IN  IF AlreadyDelivered(state, src, msg.seq)
            THEN Returned(o)
            ELSE IF OutIsNoOp(wrapped_out) THEN Returned(o)
            ELSE process_output(
                     wrapped_out,
                     [state EXCEPT !.last_delivered_seqs =
                         LastDeliveredInsert(@, src, msg.seq)],
                     o)
    ELSE \* Ack(seq)
        IF msg.seq \notin PendingKeys(state.msgs_pending_ack)
        THEN Returned(OutNew)
        ELSE Returned(OutSetState(OutNew,
                 [state EXCEPT !.msgs_pending_ack = PendingRemove(@, msg.seq)]))

\* Mutant: on_timeout resends every entry under the sequencer after its own.
RECURSIVE ResendRenumbered(_, _)
ResendRenumbered(o, entries) ==
    IF entries = <<>> THEN o
    ELSE ResendRenumbered(OutSend(o, Head(entries).dst,
                                  Deliver(Head(entries).seq + 1,
                                          Head(entries).msg)),
                          Tail(entries))

RECURSIVE Resend(_, _)
Resend(o, entries) ==
    IF entries = <<>> THEN o
    ELSE Resend(OutSend(o, Head(entries).dst,
                        Deliver(Head(entries).seq, Head(entries).msg)),
                Tail(entries))

\* Mutant: on_timeout resends without setting the timer again.
WrapperOnTimeoutNoRearm(wrapper, id, state) ==
    Returned(Resend(OutNew, PendingIter(state.msgs_pending_ack)))

WrapperOnTimeout(wrapper, id, state) ==
    Returned(Resend(OutSetTimer(OutNew), PendingIter(state.msgs_pending_ack)))

(***************************************************************************)
(* The ABD register (examples/linearizable-register.rs).  An Id is its     *)
(* number; a Seq is the pair <<write count, id>>; a TestValue is a string  *)
(* of one character, the default one being "NUL".                          *)
(***************************************************************************)
\* RegisterMsg: Put(request_id, val), Get(request_id), PutOk(request_id),
\* GetOk(request_id, val); a field a variant lacks is None.
RegisterMsg(tag, request_id, val) ==
    [tag |-> tag, request_id |-> request_id, val |-> val]

\* RegisterMsg::Internal(AbdMsg): Query(request_id),
\* AckQuery(request_id, seq, val), Record(request_id, seq, val),
\* AckRecord(request_id).
Internal(tag, request_id, seq, val) ==
    [tag |-> tag, request_id |-> request_id, seq |-> seq, val |-> val]

AbdState(seq, val, phase) == [seq |-> seq, val |-> val, phase |-> phase]

AbdActor(peers) == [tag |-> "AbdActor", peers |-> peers]

\* Out::broadcast: one Send per recipient, in order.
RECURSIVE OutBroadcast(_, _, _)
OutBroadcast(o, recipients, msg) ==
    IF recipients = <<>> THEN o
    ELSE OutBroadcast(OutSend(o, Head(recipients), msg), Tail(recipients), msg)

\* Mutant: a quorum needs one member more.
QuorumReachedLate(actor, members) ==
    Cardinality(members) = ((Len(actor.peers) + 1) \div 2 + 1) + 1

\* responses.len() == majority(self.peers.len() + 1), and the same for acks.
QuorumReached(actor, members) ==
    Cardinality(members) = (Len(actor.peers) + 1) \div 2 + 1

\* AbdActor::on_start: the Default state.
AbdOnStart(actor, id) == OutSetState(OutNew, AbdState(<<0, 0>>, "NUL", None))

\* AbdActor::on_msg
AbdOnMsg(actor, id, state, src, msg) ==
    LET SeqGreater(a, b) == a[1] > b[1] \/ (a[1] = b[1] /\ a[2] > b[2])
        IsPhase(tag) == state.phase # None /\ state.phase.v.tag = tag
        Phase1(write) ==
            [tag |-> "Phase1", request_id |-> msg.request_id,
             requester_id |-> src, write |-> write,
             responses |-> (id :> <<state.seq, state.val>>)]
        Begin(write) ==
            IF state.phase # None THEN OutNew
            ELSE OutSetState(
                     OutBroadcast(OutNew, actor.peers,
                                  Internal("Query", msg.request_id, None, None)),
                     [state EXCEPT !.phase = Some(Phase1(write))])
    IN  CASE msg.tag = "Put" -> Begin(Some(msg.val))
          [] msg.tag = "Get" -> Begin(None)
          [] msg.tag = "Query" ->
                OutSend(OutNew, src,
                        Internal("AckQuery", msg.request_id, state.seq, state.val))
          [] msg.tag = "AckQuery" ->
                IF ~IsPhase("Phase1") THEN OutNew
                ELSE IF state.phase.v.request_id # msg.request_id THEN OutNew
                ELSE
                LET phase == state.phase.v
                    responses == (src :> <<msg.seq, msg.val>>) @@ phase.responses
                    \* max_by_key over the responses, by sequencer
                    best == CHOOSE r \in {responses[i] : i \in DOMAIN responses} :
                                \A i \in DOMAIN responses :
                                    ~SeqGreater(responses[i][1], r[1])
                    seq == IF phase.write # None THEN <<best[1][1] + 1, id>>
                           ELSE best[1]
                    val == IF phase.write # None THEN phase.write.v ELSE best[2]
                    read == IF phase.write # None THEN None ELSE Some(best[2])
                IN  IF QuorumReached(actor, DOMAIN responses)
                    THEN OutSetState(
                             OutBroadcast(OutNew, actor.peers,
                                 Internal("Record", phase.request_id, seq, val)),
                             AbdState(seq, val,
                                 Some([tag |-> "Phase2",
                                       request_id |-> phase.request_id,
                                       requester_id |-> phase.requester_id,
                                       read |-> read, acks |-> {id}])))
                    ELSE OutSetState(OutNew,
                             [state EXCEPT !.phase.v.responses = responses])
          [] msg.tag = "Record" ->
                LET o == OutSend(OutNew, src,
                                 Internal("AckRecord", msg.request_id, None, None))
                IN  IF SeqGreater(msg.seq, state.seq)
                    THEN OutSetState(o, [state EXCEPT !.seq = msg.seq,
                                                      !.val = msg.val])
                    ELSE o
          [] msg.tag = "AckRecord" ->
                IF ~IsPhase("Phase2") THEN OutSetState(OutNew, state)
                ELSE IF state.phase.v.request_id # msg.request_id THEN OutNew
                ELSE
                LET phase == state.phase.v
                    acks == phase.acks \cup {src}
                IN  IF QuorumReached(actor, acks)
                    THEN OutSetState(
                             OutSend(OutNew, phase.requester_id,
                                 IF phase.read # None
                                 THEN RegisterMsg("GetOk", phase.request_id,
                                                  phase.read.v)
                                 ELSE RegisterMsg("PutOk", phase.request_id, None)),
                             [state EXCEPT !.phase = None])
                    ELSE OutSetState(OutNew, [state EXCEPT !.phase.v.acks = acks])
          [] OTHER -> OutNew \* PutOk, GetOk

\* within_boundary of the example: every server's write count is at most 3.
AbdWithinBoundary(state) ==
    \A i \in DOMAIN state.actor_states :
        "seq" \in DOMAIN state.actor_states[i] =>
            state.actor_states[i].seq[1] <= 3

(***************************************************************************)
(* The clients of RegisterTestSystem: client id puts its own value with    *)
(* request id, to server id % server_count, and after PutOk gets with      *)
(* request 2 * id from the next server.                                    *)
(***************************************************************************)
RegisterClient(server_count) == [tag |-> "Client", server_count |-> server_count]

ClientOnStart(actor, id) ==
    LET value == <<"A", "B", "C", "D">>[id - actor.server_count + 1]
    IN  OutSend(OutSetState(OutNew, [awaiting |-> Some(id), op_count |-> 1]),
                id % actor.server_count, RegisterMsg("Put", id, value))

ClientOnMsg(actor, id, state, src, msg) ==
    IF state.awaiting = None \/ msg.tag \notin {"PutOk", "GetOk"} THEN OutNew
    ELSE IF state.awaiting.v # msg.request_id THEN OutNew
    ELSE IF msg.tag = "PutOk"
    THEN OutSend(OutSetState(OutNew,
                     [awaiting |-> Some((state.op_count + 1) * id),
                      op_count |-> state.op_count + 1]),
                 (id + state.op_count) % actor.server_count,
                 RegisterMsg("Get", (state.op_count + 1) * id, None))
    ELSE OutSetState(OutNew, [awaiting |-> None,
                              op_count |-> state.op_count + 1])

(***************************************************************************)
(* A System lifted to a state machine (specification, section 4.4).  The   *)
(* state is a SystemState { actor_states, network, is_timer_set }.         *)
(***************************************************************************)
System(actors, lossy_network, duplicating_network) ==
    [actors |-> actors, lossy_network |-> lossy_network,
     duplicating_network |-> duplicating_network]

\* The commands of an Out, applied in order to the state of the system.
RECURSIVE ProcessSystemCommands(_, _, _)
ProcessSystemCommands(id, commands, state) ==
    IF commands = <<>> THEN state
    ELSE LET c == Head(commands)
         IN  ProcessSystemCommands(id, Tail(commands),
                 CASE c.tag = "Send" ->
                        [state EXCEPT !.network =
                            @ \cup {Envelope(id, c.dst, c.msg)}]
                   [] c.tag = "SetTimer" ->
                        [state EXCEPT !.is_timer_set[id + 1] = TRUE]
                   [] c.tag = "CancelTimer" ->
                        [state EXCEPT !.is_timer_set[id + 1] = FALSE])

ApplyOut(id, o, state) ==
    ProcessSystemCommands(id, o.commands,
        IF o.state # None
        THEN [state EXCEPT !.actor_states[id + 1] = o.state.v]
        ELSE state)

\* init of the lifted machine: run each actor's on_start, in actor order.
RECURSIVE SystemStart(_, _, _)
SystemStart(s, i, acc) ==
    IF i > Len(s.actors) \/ acc.panic # None THEN acc
    ELSE LET actor == s.actors[i]
             r == IF "wrapped_actor" \in DOMAIN actor
                  THEN WrapperOnStart(actor, i - 1)
                  ELSE IF actor.tag = "AbdActor"
                  THEN Returned(AbdOnStart(actor, i - 1))
                  ELSE Returned(ClientOnStart(actor, i - 1))
         IN  IF r.panic # None THEN [panic |-> r.panic, state |-> None]
             ELSE SystemStart(s, i + 1,
                     [panic |-> None,
                      state |-> ProcessSystemCommands(i - 1, r.o.commands,
                                    [acc.state EXCEPT !.actor_states =
                                        Append(@, r.o.state.v)])])

SystemInit(s) ==
    SystemStart(s, 1,
        [panic |-> None,
         state |-> [actor_states |-> <<>>, network |-> {},
                    is_timer_set |-> [i \in DOMAIN s.actors |-> FALSE]]])

\* TestSystem::within_boundary
within_boundary(state) ==
    \A i \in DOMAIN state.actor_states :
        /\ Len(state.actor_states[i].wrapped_state.sent) < 4
        /\ Len(state.actor_states[i].wrapped_state.received) < 4

\* 1. Deliver: the handler's output applied; the envelope is removed iff the
\*    network does not duplicate.
DeliverHandler(s, state, env) ==
    LET actor == s.actors[env.dst + 1]
        actor_state == state.actor_states[env.dst + 1]
    IN  IF "wrapped_actor" \in DOMAIN actor
        THEN WrapperOnMsg(actor, env.dst, actor_state, env.src, env.msg)
        ELSE IF actor.tag = "AbdActor"
        THEN Returned(AbdOnMsg(actor, env.dst, actor_state, env.src, env.msg))
        ELSE Returned(ClientOnMsg(actor, env.dst, actor_state, env.src, env.msg))

DeliverState(s, state, env, o) ==
    ApplyOut(env.dst, o,
        IF s.duplicating_network THEN state
        ELSE [state EXCEPT !.network = @ \ {env}])

\* 2. Drop: the envelope is removed, no actor state changes.
DropState(state, env) == [state EXCEPT !.network = @ \ {env}]

\* 3. Timeout: the timer has fired; the handler's output applied.
TimeoutHandler(s, state, id) ==
    WrapperOnTimeout(s.actors[id + 1], id, state.actor_states[id + 1])

TimeoutState(state, id, o) ==
    ApplyOut(id, o, [state EXCEPT !.is_timer_set[id + 1] = FALSE])

\* SystemAction
DeliverAction(env) ==
    [tag |-> "Deliver", src |-> env.src, dst |-> env.dst, msg |-> env.msg]
DropAction(env) == [tag |-> "Drop", env |-> env]
TimeoutAction(id) == [tag |-> "Timeout", id |-> id]

(***************************************************************************)
(* The systems of wrapped actors: TestSystem of ordered_reliable_link.rs   *)
(* and, for the wrapper's contract with any inner actor, systems whose     *)
(* sender or receiver is a Script actor.                                   *)
(***************************************************************************)
TestSystem ==
    System(<<ActorWrapper(Sender(1)), ActorWrapper(Receiver)>>, TRUE, TRUE)

InnerSend(dst, msg) == [tag |-> "Send", dst |-> dst, msg |-> msg]

SenderScripts ==
    {Script(a, c, TRUE, <<>>) :
        a \in BOOLEAN,
        c \in {<<>>, <<InnerSend(1, 42)>>, <<[tag |-> "SetTimer"]>>,
               <<[tag |-> "CancelTimer"]>>,
               <<InnerSend(1, 42), [tag |-> "SetTimer"]>>}}

ReceiverScripts ==
    {Script(TRUE, <<>>, a, c) :
        a \in BOOLEAN,
        c \in {<<>>, <<InnerSend(0, 7)>>, <<[tag |-> "SetTimer"]>>,
               <<[tag |-> "CancelTimer"]>>}}

LinkSystems ==
    {TestSystem}
    \cup {System(<<ActorWrapper(a), ActorWrapper(Receiver)>>, TRUE, TRUE) :
             a \in SenderScripts}
    \cup {System(<<ActorWrapper(Sender(1)), ActorWrapper(a)>>, TRUE, TRUE) :
             a \in ReceiverScripts \cup {Ignoring({42}), Ignoring({43})}}

LinkInit ==
    /\ sys \in LinkSystems
    /\ snapshot = SystemInit(sys).state
    /\ panic = SystemInit(sys).panic
    /\ path = <<>>
    /\ CheckerIdle

\* A state is expanded when the program is alive and the state is within the
\* boundary.
Expandable ==
    /\ panic = None
    /\ IF "wrapped_actor" \in DOMAIN sys.actors[1]
       THEN within_boundary(snapshot)
       ELSE AbdWithinBoundary(snapshot)

\* The envelopes and actor ids next enumerates (none without a snapshot).
Envelopes == IF snapshot = None THEN {} ELSE snapshot.network
ActorIds == IF snapshot = None THEN {} ELSE 0..(Len(snapshot.actor_states) - 1)

DeliverStep(env) ==
    /\ Expandable
    /\ env \in snapshot.network
    /\ env.dst < Len(sys.actors)
    /\ LET r == DeliverHandler(sys, snapshot, env)
       IN  IF r.panic # None
           THEN panic' = r.panic /\ snapshot' = snapshot
           ELSE panic' = None /\ snapshot' = DeliverState(sys, snapshot, env, r.o)
    /\ UNCHANGED <<sys, checkerVars>>

DropStep(env) ==
    /\ Expandable
    /\ sys.lossy_network
    /\ env \in snapshot.network
    /\ snapshot' = DropState(snapshot, env)
    /\ UNCHANGED <<sys, panic, checkerVars>>

TimeoutStep(id) ==
    /\ Expandable
    /\ id + 1 \in DOMAIN snapshot.is_timer_set
    /\ snapshot.is_timer_set[id + 1]
    /\ LET r == TimeoutHandler(sys, snapshot, id)
       IN  IF r.panic # None
           THEN panic' = r.panic /\ snapshot' = snapshot
           ELSE panic' = None /\ snapshot' = TimeoutState(snapshot, id, r.o)
    /\ UNCHANGED <<sys, checkerVars>>

LinkDeliver(env) == DeliverStep(env) /\ UNCHANGED path
LinkDrop(env) == DropStep(env) /\ UNCHANGED path
LinkTimeout(id) == TimeoutStep(id) /\ UNCHANGED path

LinkNext ==
    \/ \E env \in Envelopes : LinkDeliver(env)
    \/ \E env \in Envelopes : LinkDrop(env)
    \/ \E id \in ActorIds : LinkTimeout(id)

SpecLink == LinkInit /\ [][LinkNext]_vars

\* The same system with the path of actions recorded, up to MaxPath actions.
TracedDeliver(env) ==
    /\ Len(path) < MaxPath
    /\ DeliverStep(env)
    /\ path' = Append(path, DeliverAction(env))

TracedDrop(env) ==
    /\ Len(path) < MaxPath
    /\ DropStep(env)
    /\ path' = Append(path, DropAction(env))

TracedTimeout(id) ==
    /\ Len(path) < MaxPath
    /\ TimeoutStep(id)
    /\ path' = Append(path, TimeoutAction(id))

TracedNext ==
    \/ \E env \in Envelopes : TracedDeliver(env)
    \/ \E env \in Envelopes : TracedDrop(env)
    \/ \E id \in ActorIds : TracedTimeout(id)

SpecLinkTraced == LinkInit /\ [][TracedNext]_vars

(***************************************************************************)
(* The register system of can_model_linearizable_register: two ABD        *)
(* servers (ids 0 and 1), two clients (ids 2 and 3), a network that        *)
(* neither loses nor duplicates.                                           *)
(***************************************************************************)
RegisterTestSystem ==
    System(<<AbdActor(<<1>>), AbdActor(<<0>>),
             RegisterClient(2), RegisterClient(2)>>, FALSE, FALSE)

AbdInit ==
    /\ sys = RegisterTestSystem
    /\ snapshot = SystemInit(sys).state
    /\ panic = SystemInit(sys).panic
    /\ path = <<>>
    /\ CheckerIdle

AbdNext == \E env \in Envelopes : LinkDeliver(env)

SpecAbd == AbdInit /\ [][AbdNext]_vars

(***************************************************************************)
(* Properties of TestSystem (ordered_reliable_link.rs, TestSystem::        *)
(* properties), over the inner received list of the Receiver (actor 1).    *)
(***************************************************************************)
Received(state) == state.actor_states[2].wrapped_state.received
CountOf(received, v) == Cardinality({i \in DOMAIN received : received[i][2] = v})

\* always "no redelivery"
no_redelivery(state) ==
    CountOf(Received(state), 42) < 2 /\ CountOf(Received(state), 43) < 2

\* always "ordered": the fold (acc && last <= next, next) from (true, 0)
ordered(state) ==
    LET received == Received(state)
    IN  \A i \in DOMAIN received :
            (IF i = 1 THEN 0 ELSE received[i - 1][2]) <= received[i][2]

\* sometimes "delivered"
delivered(state) == Received(state) = << <<0, 42>>, <<0, 43>> >>

IsTestSystem == sys = TestSystem /\ snapshot # None

\* The envelopes of the test system.
Deliver42 == Envelope(0, 1, Deliver(1, 42))
Deliver43 == Envelope(0, 1, Deliver(2, 43))
Ack1 == Envelope(1, 0, Ack(1))
Ack2 == Envelope(1, 0, Ack(2))

(***************************************************************************)
(* Claims about the ordered reliable link.                                 *)
(***************************************************************************)
\* C1: no redelivery.  In every reachable state of the test system (lossy,
\* duplicating network, retransmission timers) the Receiver's inner received
\* list holds TestMsg(42) at most once and TestMsg(43) at most once.
C1_NoRedelivery == IsTestSystem => no_redelivery(snapshot)

\* Both messages were handed over and acknowledged, and both Deliver
\* envelopes are (still, or again) in the network for the next delivery.
C1_Witness ==
    /\ IsTestSystem
    /\ delivered(snapshot)
    /\ {Deliver42, Deliver43, Ack1, Ack2} \subseteq snapshot.network
    /\ snapshot.actor_states[1].msgs_pending_ack = {}

\* C2: ordered.  In every reachable state of the test system the messages
\* handed to the Receiver's inner actor are in strictly increasing order of
\* their sequencers: received never holds TestMsg(43) before TestMsg(42).
C2_Ordered ==
    IsTestSystem =>
        LET received == Received(snapshot)
        IN  /\ \A i, j \in DOMAIN received :
                   i < j => received[i][2] < received[j][2]
            /\ ordered(snapshot)

\* TestMsg(43) was handed over first; Deliver(1, 42) arrived afterwards, was
\* acknowledged and was not handed over.
C2_Witness ==
    /\ IsTestSystem
    /\ Received(snapshot) = << <<0, 43>> >>
    /\ Ack1 \in snapshot.network

\* C3: eventual-delivery witness.  In the test system a state whose received
\* list is [(0, 42), (0, 43)] is reachable, no path of fewer than two actions
\* reaches one, and the only path of two actions that does is
\* Deliver(1, 42) followed by Deliver(2, 43), both from 0 to 1.
C3_DeliveredPath ==
    (IsTestSystem /\ delivered(snapshot)) =>
        /\ Len(path) >= 2
        /\ Len(path) = 2 =>
               path = <<DeliverAction(Deliver42), DeliverAction(Deliver43)>>

C3_Witness ==
    /\ IsTestSystem
    /\ delivered(snapshot)
    /\ path = <<DeliverAction(Deliver42), DeliverAction(Deliver43)>>

\* C4: exactly-once, lossless delivery.  In every reachable state of the
\* test system, a message whose sequencer was assigned and is no longer in
\* the Sender's msgs_pending_ack (it was acknowledged) is in the Receiver's
\* received list; so with msgs_pending_ack empty, received is
\* [(0, 42), (0, 43)].
C4_Lossless ==
    IsTestSystem =>
        LET sender == snapshot.actor_states[1]
            acked(seq) == /\ seq < sender.next_send_seq
                          /\ seq \notin PendingKeys(sender.msgs_pending_ack)
        IN  /\ acked(1) => CountOf(Received(snapshot), 42) = 1
            /\ acked(2) => CountOf(Received(snapshot), 43) = 1
            /\ sender.msgs_pending_ack = {} => delivered(snapshot)

IsTimerCommand(command) == command.tag \in {"SetTimer", "CancelTimer"}
HasTimerCommand(commands) ==
    \E i \in DOMAIN commands : IsTimerCommand(commands[i])

\* C5: the wrapper rejects timer commands of the inner actor.  Whenever the
\* output of the inner on_start, or of an inner on_msg the wrapper accepted
\* (not already delivered, not a no-op), contains SetTimer or CancelTimer,
\* the wrapper's handler panics, sets no wrapper state, and the step that
\* ran it produces no successor; an output with Send commands only is never
\* rejected.
C5_HandlersReject ==
    /\ \A i \in DOMAIN sys.actors :
           LET w == InnerOnStartOut(sys.actors[i].wrapped_actor, i - 1)
               r == WrapperOnStart(sys.actors[i], i - 1)
           IN  w.state # None =>
                   /\ (r.panic # None) <=> HasTimerCommand(w.commands)
                   /\ r.panic # None => OutIsNoOp(r.o)
    /\ (panic = None /\ snapshot # None) =>
           \A env \in snapshot.network :
               (env.msg.tag = "Deliver" /\ env.dst + 1 \in DOMAIN sys.actors) =>
                   LET state == snapshot.actor_states[env.dst + 1]
                       w == InnerOnMsgOut(sys.actors[env.dst + 1].wrapped_actor,
                                          env.dst, state.wrapped_state,
                                          env.src, env.msg.msg)
                       r == DeliverHandler(sys, snapshot, env)
                   IN  IF AlreadyDelivered(state, env.src, env.msg.seq)
                          \/ OutIsNoOp(w)
                       THEN r.panic = None
                       ELSE /\ (r.panic # None) <=> HasTimerCommand(w.commands)
                            /\ r.panic # None => OutIsNoOp(r.o)

C5_TimerCommandsRejected ==
    /\ []C5_HandlersReject
    /\ [][(panic = None /\ panic' # None) =>
              /\ snapshot' = snapshot
              /\ panic' \in {Some("SetTimer is not supported at this time"),
                             Some("CancelTimer is not supported at this time")}
         ]_vars

\* A delivery whose inner on_msg issued SetTimer has aborted the program.
C5_Witness ==
    /\ snapshot # None
    /\ panic = Some("SetTimer is not supported at this time")
    /\ \E i \in DOMAIN sys.actors :
           /\ sys.actors[i].wrapped_actor.tag = "Script"
           /\ HasTimerCommand(sys.actors[i].wrapped_actor.msg_commands)

\* C6: an inner on_start that assigns no state is caught at initialization:
\* the wrapper's on_start panics with "on_start must assign state", no
\* wrapper state is set and the system has no initial snapshot.  When the
\* inner on_start assigns a state and the wrapper's on_start returns, the
\* wrapper's initial state has that wrapped_state, no last_delivered_seqs,
\* and the timer is set.
C6_OnStartMustAssignState ==
    /\ \A i \in DOMAIN sys.actors :
           LET w == InnerOnStartOut(sys.actors[i].wrapped_actor, i - 1)
               r == WrapperOnStart(sys.actors[i], i - 1)
           IN  /\ w.state = None =>
                      /\ r.panic = Some("on_start must assign state")
                      /\ OutIsNoOp(r.o)
                      /\ snapshot = None
                      /\ panic # None
               /\ (w.state # None /\ r.panic = None) =>
                      /\ r.o.state # None
                      /\ r.o.state.v.wrapped_state = w.state.v
                      /\ r.o.state.v.last_delivered_seqs = {}
                      /\ r.o.commands[1].tag = "SetTimer"
    /\ (path = <<>> /\ snapshot # None) =>
           \A i \in DOMAIN sys.actors :
               LET w == InnerOnStartOut(sys.actors[i].wrapped_actor, i - 1)
               IN  /\ w.state # None
                   /\ snapshot.actor_states[i].wrapped_state = w.state.v
                   /\ snapshot.actor_states[i].last_delivered_seqs = {}
                   /\ snapshot.is_timer_set[i]

\* The inner on_start of actor 0 assigned no state: the program panicked at
\* initialization and there is no snapshot.
C6_Witness ==
    /\ InnerOnStartOut(sys.actors[1].wrapped_actor, 0).state = None
    /\ panic = Some("on_start must assign state")
    /\ snapshot = None
    /\ path = <<>>

(***************************************************************************)
(* Claims about the ABD register.                                          *)
(***************************************************************************)
\* The deliveries of the "value chosen" example of
\* can_model_linearizable_register, as envelopes.
ValueChosenPath ==
    << Envelope(3, 1, RegisterMsg("Put", 3, "B")),
       Envelope(1, 0, Internal("Query", 3, None, None)),
       Envelope(0, 1, Internal("AckQuery", 3, <<0, 0>>, "NUL")),
       Envelope(1, 0, Internal("Record", 3, <<1, 1>>, "B")),
       Envelope(0, 1, Internal("AckRecord", 3, None, None)),
       Envelope(1, 3, RegisterMsg("PutOk", 3, None)),
       Envelope(3, 0, RegisterMsg("Get", 6, None)),
       Envelope(0, 1, Internal("Query", 6, None, None)),
       Envelope(1, 0, Internal("AckQuery", 6, <<1, 1>>, "B")),
       Envelope(0, 1, Internal("Record", 6, <<1, 1>>, "B")),
       Envelope(1, 0, Internal("AckRecord", 6, None, None)) >>

\* The state after the first k deliveries of the example, None when one of
\* them was not enabled in the state before it.
RECURSIVE AfterValueChosenPath(_)
AfterValueChosenPath(k) ==
    IF k = 0 THEN SystemInit(RegisterTestSystem).state
    ELSE LET before == AfterValueChosenPath(k - 1)
             env == ValueChosenPath[k]
         IN  IF before = None THEN None
             ELSE IF env \notin before.network \/ ~AbdWithinBoundary(before)
             THEN None
             ELSE DeliverState(RegisterTestSystem, before, env,
                      DeliverHandler(RegisterTestSystem, before, env).o)

\* C11: ABD register witness.  With two ABD servers, two clients, a
\* non-duplicating network and the boundary seq.0 <= 3, each of the 11
\* deliveries of the example is enabled in the state the previous ones
\* produced (in a reachable state that equals that state the next envelope
\* is in the network and the state is within the boundary); only the last
\* one completes the read: after it server 0 has left phase 2 and
\* GetOk(6, 'B') is on its way to client 3.
C11_ValueChosenPath ==
    LET GetOk == Envelope(0, 3, RegisterMsg("GetOk", 6, "B"))
        end == AfterValueChosenPath(Len(ValueChosenPath))
    IN  /\ \A k \in 0..Len(ValueChosenPath) : AfterValueChosenPath(k) # None
        /\ \A k \in 0..(Len(ValueChosenPath) - 1) :
               /\ GetOk \notin AfterValueChosenPath(k).network
               /\ snapshot = AfterValueChosenPath(k) =>
                      /\ Expandable
                      /\ ValueChosenPath[k + 1] \in snapshot.network
        /\ GetOk \in end.network
        /\ end.actor_states[1] = AbdState(<<1, 1>>, "B", None)

C11_Witness ==
    /\ sys = RegisterTestSystem
    /\ snapshot = AfterValueChosenPath(Len(ValueChosenPath))
    /\ Envelope(0, 3, RegisterMsg("GetOk", 6, "B")) \in snapshot.network
    /\ snapshot.actor_states[2].val = "B"

(***************************************************************************)
(* Claims about the actor systems of actor.rs.                             *)
(***************************************************************************)
\* The snapshots at most k transitions away from the initial snapshot.
RECURSIVE ReachableWithin(_, _)
ReachableWithin(s, k) ==
    IF k = 0 THEN {ActorSystemInit(s)}
    ELSE LET near == ReachableWithin(s, k - 1)
         IN  near \cup UNION {
                 {ActorSystemNext(s, state)[i][2] :
                      i \in DOMAIN ActorSystemNext(s, state)} : state \in near}

ClockSnapshot(states, msgs) ==
    [actor_states |-> states,
     network |-> {Envelope(IF m % 2 = 1 THEN 1 ELSE 0,
                           IF m % 2 = 1 THEN 0 ELSE 1, U32(m)) : m \in msgs}]

\* C7: ping-pong clock.  For two ClockActors, init_network {(1->0, 1)} and
\* the property "every actor state is < 3", check fails; the first violating
\* snapshot in breadth-first order is actor_states [3, 2] with the network
\* {(1->0,1), (0->1,2), (1->0,3), (0->1,4)}, reached by a path of 4 states
\* (three deliveries), and no snapshot fewer than three transitions away
\* from the initial one violates the property.
C7_PingPongClock ==
    (sys = ClockSystem /\ result # Idle) =>
        /\ \A state \in ReachableWithin(sys, 2) : ClockInvariant(state)
        /\ \A state \in visited :
               ~ClockInvariant(state) => result = Fail(state)
        /\ result \notin {Running, Incomplete} =>
               /\ result = Fail(ClockSnapshot(<<3, 2>>, {1, 2, 3, 4}))
               /\ PathTo(sources, result.state) =
                      <<ClockSnapshot(<<0, 0>>, {1}),
                        ClockSnapshot(<<1, 0>>, {1, 2}),
                        ClockSnapshot(<<1, 2>>, {1, 2, 3}),
                        ClockSnapshot(<<3, 2>>, {1, 2, 3, 4})>>

C7_Witness ==
    /\ sys = ClockSystem
    /\ result = Fail(ClockSnapshot(<<3, 2>>, {1, 2, 3, 4}))
    /\ Len(PathTo(sources, result.state)) = 4

\* The 14 snapshots of test::visits_expected_states.
PingPongSnapshot(pinger, ponger, network) ==
    [actor_states |-> <<PingerState(pinger), PongerState(ponger)>>,
     network |-> network]

ExpectedStates ==
    LET Ping0 == Envelope(0, 1, Ping(0))
        Pong0 == Envelope(1, 0, Pong(0))
        Ping1 == Envelope(0, 1, Ping(1))
    IN  {PingPongSnapshot(0, 0, {Ping0}), PingPongSnapshot(0, 0, {})}
        \cup {PingPongSnapshot(0, 1, n) : n \in SUBSET {Ping0, Pong0}}
        \cup {PingPongSnapshot(1, 1, n) : n \in SUBSET {Ping0, Pong0, Ping1}}

\* C8: bounded ping-pong.  For [Pinger{max_nat 1, ponger_id 1},
\* Ponger{max_nat 1}] and an empty init_network, the snapshots reachable from
\* the initial state are exactly the 14 snapshots of the test: the checker
\* never visits another one, and when it is done it has visited all 14.
C8_VisitsExpectedStates ==
    (sys = PingPongSystem(1) /\ result # Idle) =>
        /\ visited \subseteq ExpectedStates
        /\ result \in {Running, Incomplete, Pass}
        /\ result = Pass =>
               /\ visited = ExpectedStates
               /\ Cardinality(visited) = 14

C8_Witness ==
    /\ sys = PingPongSystem(1)
    /\ result = Pass
    /\ Cardinality(visited) = 14

\* C9: ping-pong invariant.  For [Pinger{max_nat 5, ponger_id 1},
\* Ponger{max_nat 5}] and an empty init_network, on the lossy, re-delivering
\* network, the values of the Pinger and the Ponger differ by at most 1 in
\* every reachable snapshot.
C9_PingPongInvariant ==
    sys = PingPongSystem(5) =>
        /\ invariant(snapshot)
        /\ LET pinger == snapshot.actor_states[1].v
               ponger == snapshot.actor_states[2].v
           IN  (IF pinger > ponger THEN pinger - ponger ELSE ponger - pinger) <= 1

\* The actors are one apart while the first Ping is still in the network,
\* free to be delivered again.
C9_Witness ==
    /\ sys = PingPongSystem(5)
    /\ snapshot.actor_states = <<PingerState(4), PongerState(5)>>
    /\ Envelope(0, 1, Ping(0)) \in snapshot.network

\* C10: ping-pong state count.  For [Pinger{max_nat 5, ponger_id 1},
\* Ponger{max_nat 5}] and an empty init_network the exploration terminates:
\* while check is running the frontier is not empty, it examines no more
\* than 4094 states, and it ends with Pass and exactly 4094 visited
\* snapshots.
C10_StateCount ==
    (sys = PingPongSystem(5) /\ result # Idle) =>
        /\ result \in {Running, Incomplete} => pending # <<>>
        /\ examined <= 4094
        /\ Cardinality(visited) <= 4094
        /\ result \notin {Running, Incomplete} =>
               /\ result = Pass
               /\ pending = <<>>
               /\ Cardinality(visited) = 4094

C10_Witness ==
    /\ sys = PingPongSystem(5)
    /\ result = Pass
    /\ Cardinality(visited) = 4094

C13_LengthStable == Len(snapshot.actor_states) = Len(sys.actors)

\* Both actors advanced to 5 and every envelope was lost afterwards.
C13_Witness ==
    /\ sys = PingPongSystem(5)
    /\ snapshot.actor_states = <<PingerState(5), PongerState(5)>>
    /\ snapshot.network = {}

\* C14: network destinations stay in range.  In every reachable snapshot of
\* a system with n actors every envelope has dst in [0, n), whatever
\* init_network holds and whatever destination an actor sends to; next
\* never indexes actor_states out of bounds.
C14_DstInRange ==
    /\ \A env \in snapshot.network : env.dst \in 0..(Len(sys.actors) - 1)
    /\ panic = None

C16_CheckOutcome ==
    /\ [](result \notin {Idle, Running} =>
           LET violating == {state \in visited : ~PropertyOf(sys, state)}
           IN  /\ result.tag \in {"Fail", "Pass", "Incomplete"}
               /\ result.tag = "Fail" <=> violating # {}
               /\ result.tag = "Fail" => violating = {result.state}
               /\ result = Pass <=> (violating = {} /\ pending = <<>>)
               /\ result = Pass => examined = Cardinality(visited)
               /\ result = Incomplete =>
                      /\ pending # <<>>
                      /\ examined > 0
                      /\ examined % job.max_count = 0)
    /\ [][(result' = Incomplete <=>
               (/\ examined' = examined + job.max_count
                /\ pending' # <<>>
                /\ \A state \in visited' : PropertyOf(sys, state)))
         ]_vars

\* The second check(3) of the ping-pong system with max_nat 1 returned
\* Incomplete.
C16_Witness ==
    /\ sys = PingPongSystem(1)
    /\ job.max_count = 3
    /\ result = Incomplete
    /\ examined = 6

\* C17: visited closure.  When a run completes with the frontier drained
\* and no violation, visited holds the initial snapshot and every successor
\* of a snapshot it holds, and nothing else: with paths kept, every visited
\* snapshot has a path from the initial snapshot along the transition
\* relation, and the small systems' visited set is the set of snapshots
\* within as many transitions as there are snapshots.
C17_VisitedClosure ==
    (result = Pass) =>
        LET Successors(state) ==
                {ActorSystemNext(sys, state)[i][2] :
                     i \in DOMAIN ActorSystemNext(sys, state)}
            Reached(state) ==
                LET reported == PathTo(sources, state)
                IN  /\ reported[1] = ActorSystemInit(sys)
                    /\ \A i \in 1..(Len(reported) - 1) :
                           reported[i + 1] \in Successors(reported[i])
        IN  /\ ActorSystemInit(sys) \in visited
            /\ \A state \in visited : Successors(state) \subseteq visited
            /\ job.keep_paths =>
                   /\ \A state \in visited : Reached(state)
                   /\ visited = ReachableWithin(sys, Cardinality(visited))

\* The run of the ping-pong system with max_nat 5 completed by calls of
\* check(100).
C17_Witness ==
    /\ sys = PingPongSystem(5)
    /\ job.max_count = 100
    /\ result = Pass
    /\ pending = <<>>

\* C18: parallel exploration enqueues each state once.  With workers sharing
\* the frontier and the visited set, every visited state was enqueued
\* exactly once, whichever workers discovered it, and is in the frontier or
\* was taken by a worker exactly once, never both; every successor a worker
\* has offered is in visited; a worker has terminated only with the
\* frontier empty and no worker expanding, and the run then ends with every
\* reachable state visited and expanded.
C18_EnqueuedOnce ==
    LET Queued(x) == Cardinality({i \in DOMAIN pending : pending[i] = x})
        Expanded(x) == IF x \in DOMAIN log.expanded THEN log.expanded[x] ELSE 0
        Offered(x) ==
            LET steps == ActorSystemNext(sys, x)
                held == {w \in workers.expanding : w.state = x}
            IN  {steps[i][2] :
                    i \in {k \in DOMAIN steps :
                              \A w \in held : k <= Len(steps) - Len(w.todo)}}
    IN  /\ DOMAIN log.enqueued = visited
        /\ \A x \in visited :
               /\ log.enqueued[x] = 1
               /\ Queued(x) + Expanded(x) = 1
        /\ \A x \in DOMAIN log.expanded :
               /\ x \in visited
               /\ Offered(x) \subseteq visited
        /\ \A i \in DOMAIN pending : pending[i] \in visited
        /\ \A w \in workers.expanding : w.state \in DOMAIN log.expanded
        /\ \A v, w \in workers.expanding : v.state = w.state => v = w
        /\ workers.stopped + Cardinality(workers.expanding) <= workers.threads
        /\ workers.stopped > 0 => (pending = <<>> /\ workers.expanding = {})
        /\ result \in {Running, Pass}
        /\ result = Pass =>
               /\ workers.stopped = workers.threads
               /\ visited = ReachableWithin(sys, Cardinality(visited))
               /\ examined = Cardinality(visited)

\* Two workers expanding different states have both offered the same
\* successor, the first of each: it was enqueued once and is in the frontier.
C18_Witness ==
    /\ workers.threads = 2
    /\ Cardinality(workers.expanding) = 2
    /\ \A w \in workers.expanding :
           Len(w.todo) = Len(ActorSystemNext(sys, w.state)) - 1
    /\ \E x \in visited :
           /\ \A w \in workers.expanding :
                  ActorSystemNext(sys, w.state)[1][2] = x
           /\ log.enqueued[x] = 1
           /\ pending # <<>>
           /\ pending[Len(pending)] = x

(***************************************************************************)
(* Further claims about the ordered reliable link.                         *)
(***************************************************************************)
\* C19: send path of the wrapper.  next_send_seq starts at 1 and is 1 plus
\* the number of Sends the wrapped actor has issued; each Send of an inner
\* output, in command order, is emitted as Deliver(s, m) to its destination
\* with s the sequencer current at that Send, recorded as s -> (dst, m) in
\* msgs_pending_ack, and advances next_send_seq by 1.  next_send_seq
\* decreases in no transition, and no sequencer of a wrapper is carried by
\* two different sends.
C19_SendPath ==
    /\ [](snapshot # None =>
           \A i \in DOMAIN snapshot.actor_states :
               LET state == snapshot.actor_states[i]
                   actor == sys.actors[i].wrapped_actor
                   Sends(commands) ==
                       {k \in DOMAIN commands : commands[k].tag = "Send"}
                   start == InnerOnStartOut(actor, i - 1).commands
                   reply == IF actor.tag = "Script"
                            THEN actor.msg_commands ELSE <<>>
                   Sent == {env \in snapshot.network :
                               env.src = i - 1 /\ env.msg.tag = "Deliver"}
               IN  /\ state.next_send_seq >= 1
                   /\ PendingKeys(state.msgs_pending_ack)
                          \subseteq 1..(state.next_send_seq - 1)
                   /\ \A env \in Sent :
                          env.msg.seq \in 1..(state.next_send_seq - 1)
                   /\ \A a, b \in Sent : a.msg.seq = b.msg.seq => a = b
                   /\ \A a, b \in state.msgs_pending_ack :
                          a.seq = b.seq => a = b
                   /\ (actor.tag # "Script" \/ actor.msg_assigns) =>
                          state.next_send_seq =
                              1 + Cardinality(Sends(start))
                                + Len(state.wrapped_state.received)
                                      * Cardinality(Sends(reply)))
    /\ [][(snapshot # None /\ snapshot' # None) =>
           \A i \in DOMAIN snapshot.actor_states :
               LET old == snapshot.actor_states[i]
                   new == snapshot'.actor_states[i]
                   actor == sys.actors[i].wrapped_actor
                   \* the inner outputs a step of this actor can process
                   Outs == {<<>>} \cup
                           {InnerOnMsgOut(actor, i - 1, old.wrapped_state,
                                          env.src, env.msg.msg).commands :
                               env \in {e \in snapshot.network :
                                           /\ e.dst = i - 1
                                           /\ e.msg.tag = "Deliver"}}
                   \* what the Sends of out lead to, from sequencer seq on
                   Emitted(seq, out) ==
                       {Envelope(i - 1, out[k].dst,
                                 Deliver(seq + k - 1, out[k].msg)) :
                           k \in DOMAIN out}
                   Recorded(seq, out) ==
                       {[seq |-> seq + k - 1, dst |-> out[k].dst,
                         msg |-> out[k].msg] : k \in DOMAIN out}
                   \* sent before, or resent by on_timeout while pending
                   SentBefore ==
                       {env \in snapshot.network :
                           env.src = i - 1 /\ env.msg.tag = "Deliver"}
                       \cup {Envelope(i - 1, e.dst, Deliver(e.seq, e.msg)) :
                                e \in old.msgs_pending_ack}
                   SentAfter == {env \in snapshot'.network :
                                    env.src = i - 1 /\ env.msg.tag = "Deliver"}
               IN  /\ new.next_send_seq >= old.next_send_seq
                   /\ \E out \in Outs :
                          /\ new.next_send_seq = old.next_send_seq + Len(out)
                          /\ \A k \in DOMAIN out : out[k].tag = "Send"
                          /\ Emitted(old.next_send_seq, out)
                                 \subseteq snapshot'.network
                          /\ SentAfter \subseteq
                                 SentBefore \cup Emitted(old.next_send_seq, out)
                          /\ Recorded(old.next_send_seq, out)
                                 \subseteq new.msgs_pending_ack
                          /\ new.msgs_pending_ack \subseteq
                                 old.msgs_pending_ack \cup
                                 Recorded(old.next_send_seq, out)
      ]_vars

\* The receiver that answers every message with one Send accepted 42 and
\* 43: its two sends went out as Deliver(1, 7) and Deliver(2, 7), and the
\* sender's two as Deliver(1, 42) and Deliver(2, 43).
C19_Witness ==
    /\ snapshot # None
    /\ sys.actors[2].wrapped_actor = Script(TRUE, <<>>, TRUE, <<InnerSend(0, 7)>>)
    /\ snapshot.actor_states[2].next_send_seq = 3
    /\ snapshot.actor_states[1].next_send_seq = 3
    /\ {Envelope(1, 0, Deliver(1, 7)), Envelope(1, 0, Deliver(2, 7)),
         Envelope(0, 1, Deliver(1, 42)), Envelope(0, 1, Deliver(2, 43))}
           \subseteq snapshot.network
    /\ snapshot.actor_states[2].msgs_pending_ack =
           {[seq |-> 1, dst |-> 0, msg |-> 7], [seq |-> 2, dst |-> 0, msg |-> 7]}

\* C20: every Deliver is acknowledged.  Whenever a wrapper handles
\* Deliver(seq, m) from src and returns, the first command of its output is
\* Send(src, Ack(seq)): it is the whole output, with no state, when the
\* message was already delivered (seq <= last delivered from src) and when
\* the wrapped actor treated it as a no-op; it is followed by the wrapped
\* actor's sends, with the new state, when the wrapped actor accepted it.
\* After the step the acknowledgement is in the network.
C20_DeliverAcked ==
    (snapshot # None /\ panic = None) =>
        \A env \in {e \in snapshot.network : e.msg.tag = "Deliver"} :
            LET state == snapshot.actor_states[env.dst + 1]
                wrapped_out ==
                    InnerOnMsgOut(sys.actors[env.dst + 1].wrapped_actor,
                                  env.dst, state.wrapped_state, env.src,
                                  env.msg.msg)
                ack == [tag |-> "Send", dst |-> env.src,
                        msg |-> Ack(env.msg.seq)]
                already ==
                    env.msg.seq <= LastDelivered(state.last_delivered_seqs,
                                                 env.src)
                r == DeliverHandler(sys, snapshot, env)
            IN  r.panic = None =>
                    /\ r.o.commands # <<>>
                    /\ r.o.commands[1] = ack
                    /\ \A k \in 2..Len(r.o.commands) :
                           /\ r.o.commands[k].tag = "Send"
                           /\ r.o.commands[k].msg.tag = "Deliver"
                    /\ already => r.o = [state |-> None, commands |-> <<ack>>]
                    /\ (~already /\ OutIsNoOp(wrapped_out)) =>
                           r.o = [state |-> None, commands |-> <<ack>>]
                    /\ (~already /\ ~OutIsNoOp(wrapped_out)) =>
                           /\ r.o.state # None
                           /\ Len(r.o.commands) = 1 + Len(wrapped_out.commands)
                    /\ Envelope(env.dst, env.src, Ack(env.msg.seq)) \in
                           DeliverState(sys, snapshot, env, r.o).network

\* The receiver whose wrapped actor ignores every message has
\* acknowledged both Delivers of the sender and delivered neither.
C20_Witness ==
    /\ snapshot # None
    /\ sys.actors[2].wrapped_actor = Script(TRUE, <<>>, FALSE, <<>>)
    /\ snapshot.actor_states[2].last_delivered_seqs = {}
    /\ {Envelope(1, 0, Ack(1)), Envelope(1, 0, Ack(2))} \subseteq snapshot.network
    /\ Envelope(0, 1, Deliver(1, 42)) \in snapshot.network

\* C21: duplicate suppression.  When a wrapper handles Deliver(seq, m) from
\* src with seq <= last_delivered_seqs[src] (absent counting as 0), the
\* handler returns with no state set and the single command
\* Send(src, Ack(seq)); nothing of the wrapped actor's on_msg shows: the
\* successor has the same actor states and timers, and its network is the
\* old one plus the acknowledgement.
C21_DuplicateSuppressed ==
    (snapshot # None /\ panic = None) =>
        \A env \in {e \in snapshot.network : e.msg.tag = "Deliver"} :
            LET state == snapshot.actor_states[env.dst + 1]
                entries == {e \in state.last_delivered_seqs : e.src = env.src}
                last == IF entries = {} THEN 0
                        ELSE (CHOOSE e \in entries : TRUE).seq
                ack == [tag |-> "Send", dst |-> env.src,
                        msg |-> Ack(env.msg.seq)]
                r == DeliverHandler(sys, snapshot, env)
                after == DeliverState(sys, snapshot, env, r.o)
            IN  /\ Cardinality(entries) <= 1
                /\ env.msg.seq <= last =>
                       /\ r.panic = None
                       /\ r.o.state = None
                       /\ r.o.commands = <<ack>>
                       /\ after.actor_states = snapshot.actor_states
                       /\ after.is_timer_set = snapshot.is_timer_set
                       /\ after.network = snapshot.network \cup
                              {Envelope(env.dst, env.src, Ack(env.msg.seq))}

\* The receiver has delivered 42 and 43; Deliver(1, 42), below the last
\* delivered sequencer 2, is in the network again and was acknowledged.
C21_Witness ==
    /\ snapshot # None
    /\ sys = TestSystem
    /\ snapshot.actor_states[2].last_delivered_seqs = {[src |-> 0, seq |-> 2]}
    /\ snapshot.actor_states[2].wrapped_state.received = <<<<0, 42>>, <<0, 43>>>>
    /\ {Envelope(0, 1, Deliver(1, 42)), Envelope(1, 0, Ack(1)),
         Envelope(1, 0, Ack(2))} \subseteq snapshot.network

\* C22: a no-op does not consume the delivery slot.  When a wrapper handles
\* Deliver(seq, m) from src with seq > last_delivered_seqs[src] and the
\* wrapped on_msg is a no-op, only the Ack is emitted and no actor state
\* changes, so that afterwards every Deliver(seq2, m2) from src with
\* seq2 > last_delivered_seqs[src], also with seq2 <= seq, that the wrapped
\* actor does not ignore is accepted; when the wrapped on_msg is not a
\* no-op, last_delivered_seqs[src] becomes seq, the other entries stay, and
\* the wrapped actor's state and sends are applied.
C22_NoOpKeepsSlot ==
    (snapshot # None /\ panic = None) =>
        \A env \in {e \in snapshot.network : e.msg.tag = "Deliver"} :
            LET actor == sys.actors[env.dst + 1].wrapped_actor
                state == snapshot.actor_states[env.dst + 1]
                last == LastDelivered(state.last_delivered_seqs, env.src)
                wrapped_out == InnerOnMsgOut(actor, env.dst, state.wrapped_state,
                                             env.src, env.msg.msg)
                ack == [tag |-> "Send", dst |-> env.src,
                        msg |-> Ack(env.msg.seq)]
                r == DeliverHandler(sys, snapshot, env)
                after == DeliverState(sys, snapshot, env, r.o)
                Accepted(new, seq, out) ==
                    /\ new # None
                    /\ new.v.last_delivered_seqs =
                           {e \in state.last_delivered_seqs : e.src # env.src}
                               \cup {[src |-> env.src, seq |-> seq]}
                    /\ new.v.wrapped_state =
                           IF out.state # None THEN out.state.v
                           ELSE state.wrapped_state
                    /\ new.v.next_send_seq =
                           state.next_send_seq + Len(out.commands)
            IN  env.msg.seq > last =>
                    /\ OutIsNoOp(wrapped_out) =>
                           /\ r.panic = None
                           /\ r.o = [state |-> None, commands |-> <<ack>>]
                           /\ after.actor_states = snapshot.actor_states
                           /\ \A later \in
                                  {e \in after.network :
                                      /\ e.msg.tag = "Deliver"
                                      /\ e.src = env.src /\ e.dst = env.dst
                                      /\ e.msg.seq > last} :
                                  LET out == InnerOnMsgOut(
                                                 actor, env.dst,
                                                 state.wrapped_state,
                                                 env.src, later.msg.msg)
                                      handled == DeliverHandler(sys, after, later)
                                  IN  (~OutIsNoOp(out) /\ handled.panic = None)
                                          => Accepted(handled.o.state,
                                                      later.msg.seq, out)
                    /\ (~OutIsNoOp(wrapped_out) /\ r.panic = None) =>
                           /\ Accepted(r.o.state, env.msg.seq, wrapped_out)
                           /\ r.o.commands[1] = ack
                           /\ Len(r.o.commands) = 1 + Len(wrapped_out.commands)
                           /\ \A k \in DOMAIN wrapped_out.commands :
                                  r.o.commands[k + 1] =
                                      [tag |-> "Send",
                                       dst |-> wrapped_out.commands[k].dst,
                                       msg |-> Deliver(
                                                  state.next_send_seq + k - 1,
                                                  wrapped_out.commands[k].msg)]

\* The receiver that ignores 43 has acknowledged Deliver(2, 43) and has
\* delivered nothing yet; Deliver(1, 42) is in the network.
C22_Witness ==
    /\ snapshot # None
    /\ sys.actors[2].wrapped_actor = Ignoring({43})
    /\ snapshot.actor_states[2].last_delivered_seqs = {}
    /\ snapshot.actor_states[2].wrapped_state.received = <<>>
    /\ Envelope(1, 0, Ack(2)) \in snapshot.network
    /\ Envelope(0, 1, Deliver(1, 42)) \in snapshot.network

\* C23: Ack path.  When a wrapper handles Ack(seq) and seq is a key of
\* msgs_pending_ack, the new state is the old one with exactly that entry
\* removed, and no command is issued; handling the same Ack once more, or
\* any Ack whose seq is not a key, is a no-op (no state, no command).
C23_AckPath ==
    (snapshot # None /\ panic = None) =>
        \A env \in {e \in snapshot.network : e.msg.tag = "Ack"} :
            LET state == snapshot.actor_states[env.dst + 1]
                entries == {e \in state.msgs_pending_ack : e.seq = env.msg.seq}
                r == DeliverHandler(sys, snapshot, env)
                after == DeliverState(sys, snapshot, env, r.o)
            IN  /\ r.panic = None
                /\ r.o.commands = <<>>
                /\ Cardinality(entries) <= 1
                /\ entries = {} => r.o.state = None
                /\ entries # {} =>
                       /\ r.o.state # None
                       /\ r.o.state.v.msgs_pending_ack =
                              state.msgs_pending_ack \ entries
                       /\ r.o.state.v.next_send_seq = state.next_send_seq
                       /\ r.o.state.v.last_delivered_seqs =
                              state.last_delivered_seqs
                       /\ r.o.state.v.wrapped_state = state.wrapped_state
                       /\ DOMAIN r.o.state.v = DOMAIN state
                /\ after.network = snapshot.network
                /\ after.is_timer_set = snapshot.is_timer_set
                /\ \A i \in DOMAIN snapshot.actor_states :
                       i # env.dst + 1 =>
                           after.actor_states[i] = snapshot.actor_states[i]
                /\ DeliverHandler(sys, after, env) = Returned(OutNew)

\* The sender was acknowledged 43 before 42: the entry of sequencer 1 is
\* still pending, and Ack(2) is in the network to be handled again.
C23_Witness ==
    /\ snapshot # None
    /\ sys = TestSystem
    /\ snapshot.actor_states[1].msgs_pending_ack =
           {[seq |-> 1, dst |-> 1, msg |-> 42]}
    /\ snapshot.actor_states[1].next_send_seq = 3
    /\ Envelope(1, 0, Ack(2)) \in snapshot.network

C25_DeliverThenDrop ==
    (panic = None /\ ~NextPanics(sys, snapshot)) =>
        LET envs == NetworkIter(snapshot.network)
            steps == ActorSystemNext(sys, snapshot)
        IN  /\ Len(steps) = 2 * Cardinality(snapshot.network)
            /\ \A i \in DOMAIN envs :
                   /\ steps[2 * i - 1][2] =
                          MessageDelivered(sys, snapshot, envs[i])
                   /\ steps[2 * i][1] = "message lost"
                   /\ steps[2 * i][2] = MessageLost(snapshot, envs[i])

\* C25, amended: next emits, for a network of k envelopes in set order,
\* exactly 2k successors, the (2i-1)-th being the loss of the i-th envelope
\* (labelled "message lost": the envelope removed, nothing else changed) and
\* the 2i-th its delivery (labelled by the actor, the envelope still in the
\* network).
C25_LostThenDelivered ==
    (panic = None /\ ~NextPanics(sys, snapshot)) =>
        LET envs == NetworkIter(snapshot.network)
            steps == ActorSystemNext(sys, snapshot)
        IN  /\ Len(steps) = 2 * Cardinality(snapshot.network)
            /\ {envs[i] : i \in DOMAIN envs} = snapshot.network
            /\ \A i \in DOMAIN envs :
                   LET gone == steps[2 * i - 1]
                       kept == steps[2 * i]
                   IN  /\ gone[1] = "message lost"
                       /\ gone[2].network = snapshot.network \ {envs[i]}
                       /\ gone[2].actor_states = snapshot.actor_states
                       /\ kept[1] = "actor step"
                       /\ envs[i] \in kept[2].network
                       /\ kept[2] =
                              MessageDelivered(sys, snapshot, envs[i])
                       /\ kept[2] # gone[2]

\* Three envelopes in the network: six successors.
C25_Witness ==
    /\ sys = PingPongSystem(1)
    /\ panic = None
    /\ Cardinality(snapshot.network) = 3
    /\ Len(ActorSystemNext(sys, snapshot)) = 6

\* C26: drop step.  For every envelope e in the network of a snapshot s,
\* next emits exactly one "message lost" successor for e: its network is
\* s.network without e, nothing added, and its actor_states are those of
\* s.  Along every run, a step that takes an envelope out of the network
\* takes out exactly one and leaves the actor states as they were.
C26_DropStep ==
    /\ []((panic = None /\ ~NextPanics(sys, snapshot)) =>
            LET steps == ActorSystemNext(sys, snapshot)
                Drops(e) ==
                    {i \in DOMAIN steps :
                        /\ steps[i][1] = "message lost"
                        /\ e \notin steps[i][2].network}
            IN  \A e \in snapshot.network :
                    /\ Cardinality(Drops(e)) = 1
                    /\ \A i \in Drops(e) :
                           /\ steps[i][2].network = snapshot.network \ {e}
                           /\ Cardinality(steps[i][2].network) =
                                  Cardinality(snapshot.network) - 1
                           /\ steps[i][2].actor_states = snapshot.actor_states
                           /\ DOMAIN steps[i][2] = DOMAIN snapshot)
    /\ [][(snapshot.network \ snapshot'.network # {}) =>
              /\ Cardinality(snapshot.network \ snapshot'.network) = 1
              /\ snapshot'.network \subseteq snapshot.network
              /\ snapshot'.actor_states = snapshot.actor_states
         ]_vars

\* Ping(1) was lost while Ping(0), between the same actors, stays in the
\* network: pinger and ponger have both counted to 1.
C26_Witness ==
    /\ sys = PingPongSystem(5)
    /\ snapshot.actor_states = <<PingerState(1), PongerState(1)>>
    /\ snapshot.network = {Envelope(0, 1, Ping(0)), Envelope(1, 0, Pong(0))}

\* C27: deliver step.  Delivering envelope e = (src, dst, msg) of snapshot s
\* yields one successor per envelope in which e is still in the network,
\* the network is s.network plus the envelopes (dst, d, m) for each
\* Send {d, m} of the handler, actor_states[dst] is the handler's resulting
\* state and every other actor's state is unchanged.  Along every run, a
\* step that is not a loss removes no envelope and changes the state of at
\* most one actor.
C27_DeliverStep ==
    /\ []((panic = None /\ ~NextPanics(sys, snapshot)) =>
            LET steps == ActorSystemNext(sys, snapshot)
                envs == NetworkIter(snapshot.network)
            IN  \A k \in DOMAIN envs :
                    LET e == envs[k]
                        res == Advance(sys.actors[e.dst + 1], e.src, e.msg,
                                   ActorResultNew(
                                       snapshot.actor_states[e.dst + 1]))
                        after == steps[2 * k][2]
                    IN  /\ e \in after.network
                        /\ after.network = snapshot.network \cup
                               {Envelope(e.dst, res.outputs[i].dst,
                                         res.outputs[i].msg) :
                                   i \in DOMAIN res.outputs}
                        /\ DOMAIN after.actor_states =
                               DOMAIN snapshot.actor_states
                        /\ after.actor_states[e.dst + 1] = res.state
                        /\ \A i \in DOMAIN snapshot.actor_states :
                               i # e.dst + 1 =>
                                   after.actor_states[i] =
                                       snapshot.actor_states[i])
    /\ [][(panic' = None /\ snapshot.network \ snapshot'.network = {}) =>
              /\ Cardinality({i \in DOMAIN snapshot.actor_states :
                                 snapshot'.actor_states[i] #
                                     snapshot.actor_states[i]}) <= 1
              /\ \A e \in snapshot'.network \ snapshot.network :
                     \E d \in snapshot.network :
                         /\ e.src = d.dst
                         /\ snapshot'.actor_states[d.dst + 1] #
                                snapshot.actor_states[d.dst + 1]
         ]_vars

\* Ping(0) was delivered to the ponger: it counted to 1 and sent Pong(0),
\* and Ping(0) is still in the network.
C27_Witness ==
    /\ sys = PingPongSystem(5)
    /\ snapshot.actor_states = <<PingerState(0), PongerState(1)>>
    /\ snapshot.network = {Envelope(0, 1, Ping(0)), Envelope(1, 0, Pong(0))}

\* C28: initial snapshot.  init emits exactly one step, labelled "INIT";
\* its actor_states[i] is the state the i-th actor's start returned, in
\* actor order, and its network holds exactly the init_network envelopes
\* and one envelope (i, dst, msg) for each Send {dst, msg} of actor i's
\* start, equal envelopes once.
C28_InitialSnapshot ==
    LET steps == ActorSystemInitSteps(sys)
        first == steps[1][2]
        seeded == {sys.init_network[i] : i \in DOMAIN sys.init_network}
        Sent(i) == {Envelope(i - 1, Start(sys.actors[i]).outputs[k].dst,
                             Start(sys.actors[i]).outputs[k].msg) :
                       k \in DOMAIN Start(sys.actors[i]).outputs}
    IN  /\ Len(steps) = 1
        /\ steps[1][1] = "INIT"
        /\ Len(first.actor_states) = Len(sys.actors)
        /\ \A i \in DOMAIN sys.actors :
               /\ first.actor_states[i] = Start(sys.actors[i]).state
               /\ Sent(i) \subseteq first.network
        /\ seeded \subseteq first.network
        /\ \A e \in first.network :
               e \in seeded \/ \E i \in DOMAIN sys.actors : e \in Sent(i)

\* The seeded ping-pong system starts with two envelopes: the three seeded
\* ones and the pinger's Ping(0) merged.
C28_Witness ==
    /\ sys = SeededPingPong
    /\ snapshot = [actor_states |-> <<PingerState(0), PongerState(0)>>,
                   network |-> {Envelope(0, 1, Ping(0)), Envelope(1, 0, Pong(0))}]
    /\ snapshot = ActorSystemInitSteps(sys)[1][2]

\* C29: the retransmission timer is always armed.  In every reachable state
\* of a system of wrappers each wrapper's timer is set, and it is set again
\* in the successor of every timeout and of every delivery; so in every
\* state the checker expands, the timeout step of every wrapper is enabled
\* and puts every unacknowledged message of that wrapper into the network.
C29_TimerAlwaysArmed ==
    snapshot # None =>
        /\ DOMAIN snapshot.is_timer_set = DOMAIN sys.actors
        /\ \A i \in DOMAIN sys.actors : snapshot.is_timer_set[i]
        /\ Expandable =>
               /\ \A i \in DOMAIN sys.actors :
                      LET r == TimeoutHandler(sys, snapshot, i - 1)
                          after == TimeoutState(snapshot, i - 1, r.o)
                      IN  /\ ENABLED LinkTimeout(i - 1)
                          /\ r.panic = None
                          /\ \A j \in DOMAIN sys.actors : after.is_timer_set[j]
                          /\ \A e \in snapshot.actor_states[i].msgs_pending_ack :
                                 Envelope(i - 1, e.dst, Deliver(e.seq, e.msg))
                                     \in after.network
               /\ \A env \in snapshot.network :
                      LET r == DeliverHandler(sys, snapshot, env)
                          after == DeliverState(sys, snapshot, env, r.o)
                      IN  r.panic = None =>
                              \A j \in DOMAIN sys.actors : after.is_timer_set[j]

\* Everything was delivered and acknowledged, the network was emptied, and
\* both timers are set.
C29_Witness ==
    /\ snapshot # None
    /\ sys = TestSystem
    /\ snapshot.actor_states[1].msgs_pending_ack = {}
    /\ snapshot.actor_states[2].wrapped_state.received = <<<<0, 42>>, <<0, 43>>>>
    /\ snapshot.network = {}
    /\ snapshot.is_timer_set = <<TRUE, TRUE>>

\* C30: the sequencers in use are bounded and unambiguous.  In every
\* reachable state, and in the state every retransmission leads to, each
\* key of a wrapper's msgs_pending_ack and each sequencer of a Deliver
\* envelope that wrapper has in the network is at least 1 and below
\* next_send_seq; Deliver envelopes of one wrapper with one sequencer have
\* the same inner message and destination, which are those of the pending
\* entry of that sequencer while it is unacknowledged.
C30_SequencersUnambiguous ==
    snapshot # None =>
        LET InUse(st, i) ==
                {env \in st.network :
                    env.src = i - 1 /\ env.msg.tag = "Deliver"}
            Holds(st) ==
                \A i \in DOMAIN st.actor_states :
                    LET w == st.actor_states[i]
                    IN  /\ \A e \in w.msgs_pending_ack :
                               1 <= e.seq /\ e.seq < w.next_send_seq
                        /\ \A env \in InUse(st, i) :
                               /\ 1 <= env.msg.seq
                               /\ env.msg.seq < w.next_send_seq
                               /\ \A other \in InUse(st, i) :
                                      other.msg.seq = env.msg.seq =>
                                          /\ other.msg.msg = env.msg.msg
                                          /\ other.dst = env.dst
                               /\ \A e \in w.msgs_pending_ack :
                                      e.seq = env.msg.seq =>
                                          /\ e.msg = env.msg.msg
                                          /\ e.dst = env.dst
        IN  /\ Holds(snapshot)
            /\ Expandable =>
                   \A i \in DOMAIN sys.actors :
                       LET r == TimeoutHandler(sys, snapshot, i - 1)
                       IN  r.panic = None =>
                               Holds(TimeoutState(snapshot, i - 1, r.o))

\* The first Deliver was acknowledged and its entry removed, the second is
\* still pending, and both are in the network.
C30_Witness ==
    /\ snapshot # None
    /\ sys = TestSystem
    /\ snapshot.actor_states[1].next_send_seq = 3
    /\ PendingKeys(snapshot.actor_states[1].msgs_pending_ack) = {2}
    /\ {Deliver42, Deliver43} \subseteq snapshot.network

(***************************************************************************)
(* Further claims about the ABD register.                                  *)
(***************************************************************************)
\* C31: an ABD server's stored sequencer never decreases.  In every step of
\* the register system, for every server, seq after the step is greater than
\* or equal to seq before the step in the lexicographic order on
\* (write count, id), and val changes only in a step that sets seq: the
\* delivery of an AckQuery that completes the quorum of phase 1, or of a
\* Record with a greater sequencer.
C31_SeqNeverDecreases ==
    [][(snapshot # None /\ snapshot' # None) =>
          \A i \in DOMAIN snapshot.actor_states :
              "seq" \in DOMAIN snapshot.actor_states[i] =>
                  LET old == snapshot.actor_states[i]
                      new == snapshot'.actor_states[i]
                      SeqLeq(a, b) ==
                          a[1] < b[1] \/ (a[1] = b[1] /\ a[2] <= b[2])
                      SetsSeq(env) ==
                          \/ /\ env.msg.tag = "Record"
                             /\ ~SeqLeq(env.msg.seq, old.seq)
                          \/ /\ env.msg.tag = "AckQuery"
                             /\ old.phase # None
                             /\ old.phase.v.tag = "Phase1"
                             /\ old.phase.v.request_id = env.msg.request_id
                             /\ QuorumReached(sys.actors[i],
                                    DOMAIN old.phase.v.responses \cup {env.src})
                  IN  /\ SeqLeq(old.seq, new.seq)
                      /\ new.val # old.val =>
                             \E env \in snapshot.network :
                                 /\ env.dst = i - 1
                                 /\ SetsSeq(env)
                                 /\ snapshot' = DeliverState(sys, snapshot, env,
                                        DeliverHandler(sys, snapshot, env).o)
      ]_vars

====
